---------------------------- MODULE Spec2Model ----------------------------
(***************************************************************************)
(* Model of the aces-dev CTL transform discovery and classification code   *)
(* of opencolorio_config_aces/config/reference/discover/classify.py.       *)
(*                                                                         *)
(* Python strings are modelled as sequences of one-character strings, so   *)
(* that str.replace, str.split, str.startswith, "in" and the regular       *)
(* expressions of the source are computed character by character.          *)
(***************************************************************************)
EXTENDS Integers, Sequences, FiniteSets, TLC

VARIABLES
    aces_transform_id,   \* patch_invalid_aces_transform_id: the argument
    patched,             \* the results of successive applications of the shim
    raw_id,              \* ACESTransformID.__init__: the argument
    parsed,              \* the constructed ACESTransformID, or the exception
    ctl_transforms,      \* find_ctl_transform_pairs: the list of paths
    ctl_transform_pairs, \* its result, once called
    unclassified_ctl_transforms, \* classify_aces_ctl_transforms: the argument
    unreadable,          \* the files whose CTLTransform construction raises
    classified_ctl_transforms,   \* the taxonomy returned, or the exception
    flattened,           \* unclassify_ctl_transforms: its result, once called
    json_data,           \* the transforms of transforms.json, bucket by bucket
    include_previous_transform_ids, \* generate_amf_components: the argument
    amf_components,      \* the graph returned, once called
    ctl_file,            \* CTLTransform._parse: the file at the record's path
    loaded,              \* the constructed CTLTransform, or the exception
    records,             \* filter_ctl_transforms: the list of records
    filterers,           \* its list of predicates, or None
    filtered_ctl_transforms,     \* its result, once called
    file_system,         \* discover_aces_ctl_transforms: the tree on disk
    discover_root,       \* its root_directory argument
    discovered,          \* the mapping returned, once called
    amf_query,           \* filter_amf_components: the arguments
    filtered_amf_components      \* its result, once called

varsPatch == <<aces_transform_id, patched>>
varsParse == <<raw_id, parsed>>
varsPairs == <<ctl_transforms, ctl_transform_pairs>>
varsClassify ==
    <<unclassified_ctl_transforms, unreadable, classified_ctl_transforms,
      flattened>>
varsAmf == <<json_data, include_previous_transform_ids, amf_components>>
varsLoad == <<ctl_file, loaded>>
varsFilter == <<records, filterers, filtered_ctl_transforms>>
varsDiscover == <<file_system, discover_root, discovered>>
varsQuery == <<amf_query, filtered_amf_components>>
varsLater == <<varsLoad, varsFilter, varsDiscover, varsQuery>>
vars ==
    <<varsPatch, varsParse, varsPairs, varsClassify, varsAmf, varsLoad,
      varsFilter, varsDiscover, varsQuery>>

\* The state of each part of the module before it is used.
IdlePatch == aces_transform_id = <<>> /\ patched = <<>>
IdleParse == raw_id = <<>> /\ parsed = [ status |-> "idle" ]
IdlePairs ==
    ctl_transforms = <<>> /\ ctl_transform_pairs = [ status |-> "idle" ]
IdleClassify ==
    /\ unclassified_ctl_transforms = <<>>
    /\ unreadable = {}
    /\ classified_ctl_transforms = [ status |-> "idle" ]
    /\ flattened = [ status |-> "idle" ]
IdleAmf ==
    /\ json_data = <<>>
    /\ include_previous_transform_ids = FALSE
    /\ amf_components = [ status |-> "idle" ]
IdleLoad ==
    ctl_file = [ readable |-> FALSE ] /\ loaded = [ status |-> "idle" ]
IdleFilter ==
    /\ records = [ kind |-> "list", list |-> <<>> ]
    /\ filterers = [ given |-> FALSE ]
    /\ filtered_ctl_transforms = [ status |-> "idle" ]
IdleDiscover ==
    /\ file_system = <<>>
    /\ discover_root = <<>>
    /\ discovered = [ status |-> "idle" ]
IdleQuery ==
    /\ amf_query = [ status |-> "idle" ]
    /\ filtered_amf_components = [ status |-> "idle" ]
IdleLater == IdleLoad /\ IdleFilter /\ IdleDiscover /\ IdleQuery

(***************************************************************************)
(* String constants of the source.                                         *)
(***************************************************************************)
URN_CTL == <<"u", "r", "n", ":", "a", "m", "p", "a", "s", ":", "a", "c", "e", "s", ":", "t", "r", "a", "n", "s", "f", "o", "r", "m", "I", "d", ":", "v", "2", ".", "0">>
SEPARATOR_URN_CTL == <<":">>
SEPARATOR_ID_CTL == <<".">>
EXTENSION_CTL == <<".", "c", "t", "l">>
VALUE_DEFAULT_UNDEFINED == <<"u", "n", "d", "e", "f", "i", "n", "e", "d">>
TRANSFORM_TYPES_CTL ==
    { <<"C", "S", "C">>, <<"L", "i", "b">>, <<"L", "o", "o", "k">>,
      <<"I", "n", "v", "L", "o", "o", "k">>, <<"O", "u", "t", "p", "u", "t">>,
      <<"I", "n", "v", "O", "u", "t", "p", "u", "t">> }
S_transformID == <<"t", "r", "a", "n", "s", "f", "o", "r", "m", "I", "D">>
S_transformId == <<"t", "r", "a", "n", "s", "f", "o", "r", "m", "I", "d">>
S_LogCv3 == <<"L", "o", "g", "C", "v", "3">>
S_LogC3 == <<"L", "o", "g", "C", "3">>
S_LogCv4 == <<"L", "o", "g", "C", "v", "4">>
S_LogC4 == <<"L", "o", "g", "C", "4">>
S_ACES == <<"A", "C", "E", "S">>
S_ACES2065_1 == <<"A", "C", "E", "S", "2", "0", "6", "5", "-", "1">>
S_Unity == <<"U", "n", "i", "t", "y">>
S_to == <<"_", "t", "o", "_">>
S_CSC == <<"C", "S", "C">>
S_Lib == <<"L", "i", "b">>
S_Look == <<"L", "o", "o", "k">>
S_InvLook == <<"I", "n", "v", "L", "o", "o", "k">>
S_Output == <<"O", "u", "t", "p", "u", "t">>
S_InvOutput == <<"I", "n", "v", "O", "u", "t", "p", "u", "t">>

(***************************************************************************)
(* Python string primitives, as the source uses them.                      *)
(***************************************************************************)

\* s[i:i+len(p)] == p
MatchAt(s, p, i) ==
    /\ i >= 1
    /\ i + Len(p) - 1 <= Len(s)
    /\ \A k \in 1..Len(p) : s[i + k - 1] = p[k]

\* str.find from position i (1-based); 0 when p does not occur
RECURSIVE FindFrom(_, _, _)
FindFrom(s, p, i) ==
    IF i + Len(p) - 1 > Len(s) THEN 0
    ELSE IF MatchAt(s, p, i) THEN i
    ELSE FindFrom(s, p, i + 1)

\* the last position at or before i where p occurs; 0 when there is none
RECURSIVE RFindFrom(_, _, _)
RFindFrom(s, p, i) ==
    IF i < 1 THEN 0
    ELSE IF MatchAt(s, p, i) THEN i
    ELSE RFindFrom(s, p, i - 1)

\* p in s
Contains(s, p) == FindFrom(s, p, 1) # 0

\* s.startswith(p)
StartsWith(s, p) == MatchAt(s, p, 1)

\* s.endswith(p)
EndsWith(s, p) == Len(p) <= Len(s) /\ MatchAt(s, p, Len(s) - Len(p) + 1)

\* s.replace(old, new): every non-overlapping occurrence, leftmost first
RECURSIVE Replace(_, _, _)
Replace(s, old, new) ==
    LET i == FindFrom(s, old, 1)
    IN IF i = 0 THEN s
       ELSE SubSeq(s, 1, i - 1) \o new
            \o Replace(SubSeq(s, i + Len(old), Len(s)), old, new)

\* s.split(sep): the list of the parts between the occurrences of sep
RECURSIVE Split(_, _)
Split(s, sep) ==
    LET i == FindFrom(s, sep, 1)
    IN IF i = 0 THEN <<s>>
       ELSE <<SubSeq(s, 1, i - 1)>>
            \o Split(SubSeq(s, i + Len(sep), Len(s)), sep)

\* s.rsplit(sep, 1): split once, at the last occurrence of sep
RSplit1(s, sep) ==
    LET i == RFindFrom(s, sep, Len(s) - Len(sep) + 1)
    IN IF i = 0 THEN <<s>>
       ELSE <<SubSeq(s, 1, i - 1), SubSeq(s, i + Len(sep), Len(s))>>

\* the concatenation of a sequence of strings
RECURSIVE Concat(_)
Concat(parts) ==
    IF parts = <<>> THEN <<>> ELSE Head(parts) \o Concat(Tail(parts))

\* the sequences over S of length lo..hi
SeqsOf(S, lo, hi) == UNION { [1..n -> S] : n \in lo..hi }

(***************************************************************************)
(* patch_invalid_aces_transform_id                                         *)
(***************************************************************************)

\* The three tests read invalid_id, the argument, and each assignment
\* replaces in invalid_id: a later branch discards an earlier one's result.
patch_invalid_aces_transform_id(s) ==
    LET invalid_id == s
        after1 == IF Contains(invalid_id, S_transformID)
                  THEN Replace(invalid_id, S_transformID, S_transformId)
                  ELSE s
        after2 == IF Contains(invalid_id, S_LogCv3)
                  THEN Replace(invalid_id, S_LogCv3, S_LogC3)
                  ELSE after1
        after3 == IF Contains(invalid_id, S_LogCv4)
                  THEN Replace(invalid_id, S_LogCv4, S_LogC4)
                  ELSE after2
    IN after3

\* Bound: an identifier handed to the shim is made of at most this many fragments.
MaxPatchFragments == 3

\* The fragments identifiers are made of: the three known-bad substrings,
\* their corrections, and pieces of them that meet across a fragment border.
PatchFragments ==
    { S_transformID, S_transformId, S_LogCv3, S_LogCv4, S_LogC3,
      <<"L", "o", "g", "C">>, <<"v", "3">>, <<":">> }

PatchInputs == { Concat(f) : f \in SeqsOf(PatchFragments, 0, MaxPatchFragments) }

InitPatch ==
    /\ aces_transform_id \in PatchInputs
    /\ patched = <<>>
    /\ IdleParse /\ IdlePairs /\ IdleClassify /\ IdleAmf
    /\ IdleLater

\* One more application of the shim to the previous result.
Patch ==
    /\ Len(patched) < 2
    /\ patched' = Append(patched,
           patch_invalid_aces_transform_id(
               IF patched = <<>> THEN aces_transform_id
               ELSE patched[Len(patched)]))
    /\ UNCHANGED <<aces_transform_id, varsParse, varsPairs, varsClassify, varsAmf>>
    /\ UNCHANGED varsLater

NextPatch == Patch

SpecPatch == InitPatch /\ [][NextPatch]_vars

\* The known-bad substrings the shim is there to rewrite.
KnownBad == { S_transformID, S_LogCv3, S_LogCv4 }

\* C1: the compatibility rewrite is idempotent: applying the shim to its own
\* result gives that result again, for every identifier, whichever of the
\* known-bad substrings it contains.
C1_PatchIdempotent ==
    Len(patched) = 2 => patched[2] = patched[1]

\* C2: every known-bad substring is rewritten: the result of the shim
\* contains none of 'transformID', 'LogCv3', 'LogCv4'.
C2_PatchLeavesNoKnownBad ==
    Len(patched) >= 1 => \A bad \in KnownBad : ~Contains(patched[1], bad)

(***************************************************************************)
(* ACESTransformID                                                         *)
(***************************************************************************)

\* The object __init__ leaves when _parse returns at once: every field but
\* the identifier keeps its default.
UndefinedID(s) ==
    [ status |-> "ok", aces_transform_id |-> s,
      urn |-> VALUE_DEFAULT_UNDEFINED, type |-> VALUE_DEFAULT_UNDEFINED,
      namespace |-> VALUE_DEFAULT_UNDEFINED, name |-> VALUE_DEFAULT_UNDEFINED,
      major_version |-> VALUE_DEFAULT_UNDEFINED,
      minor_version |-> VALUE_DEFAULT_UNDEFINED,
      patch_version |-> VALUE_DEFAULT_UNDEFINED,
      source |-> VALUE_DEFAULT_UNDEFINED, target |-> VALUE_DEFAULT_UNDEFINED ]

\* An exception leaving the constructor: no object is made.
Raised(e) == [ status |-> "raised", exception |-> e ]

\* if source == "ACES": source = "ACES2065-1" (and the same for target)
RewriteACES(side) == IF side = S_ACES THEN S_ACES2065_1 ELSE side

\* Mutation: the Output and InvOutput rules exchanged.
SourceTargetSwapped(type, name) ==
    IF type = S_CSC
    THEN LET sides == IF Contains(name, S_Unity) THEN <<S_ACES, S_ACES>>
                      ELSE Split(name, S_to)
         IN IF Len(sides) # 2 THEN Raised("ValueError")
            ELSE [ status |-> "ok", source |-> RewriteACES(sides[1]),
                   target |-> RewriteACES(sides[2]) ]
    ELSE IF type \in { S_Look, S_InvLook }
    THEN [ status |-> "ok", source |-> S_ACES2065_1, target |-> S_ACES2065_1 ]
    ELSE IF type = S_InvOutput
    THEN [ status |-> "ok", source |-> S_ACES2065_1, target |-> name ]
    ELSE IF type = S_Output
    THEN [ status |-> "ok", source |-> name, target |-> S_ACES2065_1 ]
    ELSE [ status |-> "ok", source |-> VALUE_DEFAULT_UNDEFINED,
           target |-> VALUE_DEFAULT_UNDEFINED ]

\* Mutation: the target of a CSC identifier is not rewritten.
SourceTargetTargetKept(type, name) ==
    IF type = S_CSC
    THEN LET sides == IF Contains(name, S_Unity) THEN <<S_ACES, S_ACES>>
                      ELSE Split(name, S_to)
         IN IF Len(sides) # 2 THEN Raised("ValueError")
            ELSE [ status |-> "ok", source |-> RewriteACES(sides[1]),
                   target |-> sides[2] ]
    ELSE IF type \in { S_Look, S_InvLook }
    THEN [ status |-> "ok", source |-> S_ACES2065_1, target |-> S_ACES2065_1 ]
    ELSE IF type = S_Output
    THEN [ status |-> "ok", source |-> S_ACES2065_1, target |-> name ]
    ELSE IF type = S_InvOutput
    THEN [ status |-> "ok", source |-> name, target |-> S_ACES2065_1 ]
    ELSE [ status |-> "ok", source |-> VALUE_DEFAULT_UNDEFINED,
           target |-> VALUE_DEFAULT_UNDEFINED ]

\* The source and target of a parsed identifier (the tail of _parse).  The
\* unpacking "source, target = name.split('_to_')" raises ValueError unless
\* the split gives exactly two parts.  A Lib identifier keeps the defaults.
SourceTarget(type, name) ==
    IF type = S_CSC
    THEN LET sides == IF Contains(name, S_Unity) THEN <<S_ACES, S_ACES>>
                      ELSE Split(name, S_to)
         IN IF Len(sides) # 2 THEN Raised("ValueError")
            ELSE [ status |-> "ok", source |-> RewriteACES(sides[1]),
                   target |-> RewriteACES(sides[2]) ]
    ELSE IF type \in { S_Look, S_InvLook }
    THEN [ status |-> "ok", source |-> S_ACES2065_1, target |-> S_ACES2065_1 ]
    ELSE IF type = S_Output
    THEN [ status |-> "ok", source |-> S_ACES2065_1, target |-> name ]
    ELSE IF type = S_InvOutput
    THEN [ status |-> "ok", source |-> name, target |-> S_ACES2065_1 ]
    ELSE [ status |-> "ok", source |-> VALUE_DEFAULT_UNDEFINED,
           target |-> VALUE_DEFAULT_UNDEFINED ]

\* Mutation: the type is not attested.
ACESTransformIDTypeUnchecked(s) ==
    IF s = VALUE_DEFAULT_UNDEFINED THEN UndefinedID(s)
    ELSE
      LET patched_id == patch_invalid_aces_transform_id(s)
          halves == RSplit1(patched_id, SEPARATOR_URN_CTL)
      IN IF Len(halves) # 2 THEN Raised("ValueError")
         ELSE
           LET urn == halves[1]
               tokens == Split(halves[2], SEPARATOR_ID_CTL)
               type == tokens[1]
               components == Tail(tokens)
           IN IF urn # URN_CTL THEN Raised("attest")
              ELSE IF Len(components) # 4 THEN Raised("attest")
              ELSE
                LET st == SourceTarget(type, components[2])
                IN IF st.status # "ok" THEN st
                   ELSE [ status |-> "ok", aces_transform_id |-> s,
                          urn |-> urn, type |-> type,
                          namespace |-> components[1],
                          name |-> components[2],
                          major_version |-> components[3],
                          minor_version |-> components[4],
                          patch_version |-> VALUE_DEFAULT_UNDEFINED,
                          source |-> st.source, target |-> st.target ]

\* ACESTransformID(s): __init__ and _parse.  The unpacking of rsplit raises
\* ValueError when there is no ':'; a failed attest raises.
ACESTransformID(s) ==
    IF s = VALUE_DEFAULT_UNDEFINED THEN UndefinedID(s)
    ELSE
      LET patched_id == patch_invalid_aces_transform_id(s)
          halves == RSplit1(patched_id, SEPARATOR_URN_CTL)
      IN IF Len(halves) # 2 THEN Raised("ValueError")
         ELSE
           LET urn == halves[1]
               tokens == Split(halves[2], SEPARATOR_ID_CTL)
               type == tokens[1]
               components == Tail(tokens)
           IN IF urn # URN_CTL THEN Raised("attest")
              ELSE IF Len(components) # 4 THEN Raised("attest")
              ELSE IF type \notin TRANSFORM_TYPES_CTL THEN Raised("attest")
              ELSE
                LET st == SourceTarget(type, components[2])
                IN IF st.status # "ok" THEN st
                   ELSE [ status |-> "ok", aces_transform_id |-> s,
                          urn |-> urn, type |-> type,
                          namespace |-> components[1],
                          name |-> components[2],
                          major_version |-> components[3],
                          minor_version |-> components[4],
                          patch_version |-> VALUE_DEFAULT_UNDEFINED,
                          source |-> st.source, target |-> st.target ]

\* Bound: a transform name is made of at most this many fragments.
MaxNameFragments == 3

S_Academy == <<"A", "c", "a", "d", "e", "m", "y">>
S_a2 == <<"a", "2">>
S_v1 == <<"v", "1">>
S_Rec709 == <<"R", "e", "c", "7", "0", "9", "-", "D", "6", "5", "_", "1", "0", "0", "n", "i", "t", "_", "i", "n", "_", "R", "e", "c", "7", "0", "9", "-", "D", "6", "5", "_", "s", "R", "G", "B", "-", "P", "i", "e", "c", "e", "w", "i", "s", "e">>

\* Names without '.' and ':': the pieces CSC names are made of, a legacy
\* curve-name typo, and the name of the documented Output identifier.
NameFragments == { S_ACES, S_to, S_Unity, <<"c", "c">>, S_LogCv3 }
Names ==
    { Concat(f) : f \in SeqsOf(NameFragments, 1, MaxNameFragments) }
    \cup { S_Rec709 }

\* '<urn>:<TYPE>.<NAMESPACE>.<NAME>.<MAJOR>.<MINOR>' and, with extra,
\* further '.'-separated components.
MakeID(urn, type, name, extra) ==
    urn \o SEPARATOR_URN_CTL \o type \o SEPARATOR_ID_CTL \o S_Academy
    \o SEPARATOR_ID_CTL \o name \o SEPARATOR_ID_CTL \o S_a2
    \o extra

\* The identifiers of the grammar: the fixed URN, one of the six types and
\* four dot-free components.
GrammarIDs ==
    { MakeID(URN_CTL, t, n, SEPARATOR_ID_CTL \o S_v1) :
        t \in TRANSFORM_TYPES_CTL, n \in Names }

\* Identifiers off the grammar: the mistyped URN keyword the shim corrects,
\* another URN, an unknown type, three or five components, no ':' at all.
OtherURNs ==
    { <<"u", "r", "n", ":", "a", "m", "p", "a", "s", ":", "a", "c", "e", "s", ":", "t", "r", "a", "n", "s", "f", "o", "r", "m", "I", "D", ":", "v", "2", ".", "0">>,
      <<"u", "r", "n", ":", "a", "m", "p", "a", "s", ":", "a", "c", "e", "s", ":", "t", "r", "a", "n", "s", "f", "o", "r", "m", "I", "d", ":", "v", "1", ".", "5">> }
OtherIDs ==
    { MakeID(u, t, n, x) :
        u \in OtherURNs \cup { URN_CTL },
        t \in TRANSFORM_TYPES_CTL \cup { <<"O", "D", "T">> },
        n \in Names,
        x \in { <<>>, SEPARATOR_ID_CTL \o S_v1,
                SEPARATOR_ID_CTL \o S_v1 \o SEPARATOR_ID_CTL \o <<"0">> } }
    \cup { VALUE_DEFAULT_UNDEFINED, <<"g", "a", "r", "b", "a", "g", "e">> }

ParseInputs == GrammarIDs \cup OtherIDs

InitParse ==
    /\ raw_id \in ParseInputs
    /\ parsed = [ status |-> "new" ]
    /\ IdlePatch /\ IdlePairs /\ IdleClassify /\ IdleAmf
    /\ IdleLater

\* ACESTransformID(raw_id) is constructed, or raises.
Construct ==
    /\ parsed.status = "new"
    /\ parsed' = ACESTransformID(raw_id)
    /\ UNCHANGED <<raw_id, varsPatch, varsPairs, varsClassify, varsAmf>>
    /\ UNCHANGED varsLater

NextParse == Construct

SpecParse == InitParse /\ [][NextParse]_vars

\* C8: parsing is total on the grammar: for every identifier
\* '<URN_CTL>:<TYPE>.<NAMESPACE>.<NAME>.<MAJOR>.<MINOR>' with one of the six
\* types and dot-free tokens, the construction completes without raising.
C8_ParseTotalOnGrammar ==
    (raw_id \in GrammarIDs /\ parsed.status # "new") => parsed.status = "ok"

\* The side of a CSC name as the identifier reports it.
C9_Side(x) == IF x = S_ACES THEN S_ACES2065_1 ELSE x

\* The rules of C9 that the code follows to the letter: Unity, Look, InvLook,
\* Output, InvOutput, and the documented Output identifier.
C9_OtherRules ==
    /\ (parsed.type = S_CSC /\ Contains(parsed.name, S_Unity))
          => parsed.source = S_ACES2065_1 /\ parsed.target = S_ACES2065_1
    /\ parsed.type \in { S_Look, S_InvLook }
          => parsed.source = S_ACES2065_1 /\ parsed.target = S_ACES2065_1
    /\ parsed.type = S_Output
          => parsed.source = S_ACES2065_1 /\ parsed.target = parsed.name
    /\ parsed.type = S_InvOutput
          => parsed.source = parsed.name /\ parsed.target = S_ACES2065_1
    /\ raw_id = MakeID(URN_CTL, S_Output, S_Rec709, SEPARATOR_ID_CTL \o S_v1)
          => /\ parsed.type = S_Output
             /\ parsed.namespace = S_Academy
             /\ parsed.name = S_Rec709
             /\ parsed.source = S_ACES2065_1
             /\ parsed.target = S_Rec709

\* C9 (as amended): for every successfully parsed identifier, source and
\* target follow the type rules, where a CSC identifier without 'Unity' in
\* its name gives the two sides of the name split on '_to_', each side that
\* is exactly 'ACES' replaced by 'ACES2065-1'.
C9_SourceTargetRules ==
    (parsed.status = "ok" /\ raw_id # VALUE_DEFAULT_UNDEFINED) =>
        /\ C9_OtherRules
        /\ (parsed.type = S_CSC /\ ~Contains(parsed.name, S_Unity))
              => /\ Len(Split(parsed.name, S_to)) = 2
                 /\ parsed.source = C9_Side(Split(parsed.name, S_to)[1])
                 /\ parsed.target = C9_Side(Split(parsed.name, S_to)[2])

\* C9 (as stated): ... any other CSC gives the two sides of the name split on
\* '_to_', as they are.
C9_SourceTargetRulesAsStated ==
    (parsed.status = "ok" /\ raw_id # VALUE_DEFAULT_UNDEFINED) =>
        /\ C9_OtherRules
        /\ (parsed.type = S_CSC /\ ~Contains(parsed.name, S_Unity))
              => /\ Len(Split(parsed.name, S_to)) = 2
                 /\ parsed.source = Split(parsed.name, S_to)[1]
                 /\ parsed.target = Split(parsed.name, S_to)[2]

\* C9's case: the CSC identifier of name 'ACES_to_cc' has been parsed; its
\* source is the working reference space and its target is 'cc'.
C9_Witness ==
    /\ raw_id = MakeID(URN_CTL, S_CSC, S_ACES \o S_to \o <<"c", "c">>,
                       SEPARATOR_ID_CTL \o S_v1)
    /\ parsed.status = "ok"
    /\ parsed.source = S_ACES2065_1
    /\ parsed.target = <<"c", "c">>

C11_HasURNSegment(s) == Len(RSplit1(s, SEPARATOR_URN_CTL)) = 2
C11_URNSegment(s) == RSplit1(s, SEPARATOR_URN_CTL)[1]
C11_IDTokens(s) ==
    Split(RSplit1(s, SEPARATOR_URN_CTL)[Len(RSplit1(s, SEPARATOR_URN_CTL))],
          SEPARATOR_ID_CTL)
C11_GrammarViolation(s) ==
    \/ ~C11_HasURNSegment(s)
    \/ C11_URNSegment(s) # URN_CTL
    \/ Len(C11_IDTokens(s)) # 5
    \/ C11_IDTokens(s)[1] \notin TRANSFORM_TYPES_CTL

\* C11 (as stated): for every string other than 'undefined' that violates
\* the grammar (URN, component count or type), the construction raises and
\* returns no identifier.
C11_FailsHardAsStated ==
    (/\ parsed.status # "new"
     /\ raw_id # VALUE_DEFAULT_UNDEFINED
     /\ C11_GrammarViolation(raw_id))
        => parsed.status = "raised"

\* C11 (as amended): for every string other than 'undefined', when the
\* string as patch_invalid_aces_transform_id rewrites it violates the
\* grammar, the construction raises and returns no identifier: ValueError
\* when the string has no ':', the attest failure otherwise.  A string whose
\* only violation is one the rewrite removes is parsed.
C11_FailsHard ==
    (/\ parsed.status # "new"
     /\ raw_id # VALUE_DEFAULT_UNDEFINED
     /\ C11_GrammarViolation(patch_invalid_aces_transform_id(raw_id)))
        => /\ parsed.status = "raised"
           /\ parsed.exception =
                  IF C11_HasURNSegment(patch_invalid_aces_transform_id(raw_id))
                  THEN "attest" ELSE "ValueError"

\* C11's case: an identifier of the fixed URN and four components whose
\* type is not one of the six has been refused.
C11_Witness ==
    /\ raw_id = MakeID(URN_CTL, <<"O", "D", "T">>, <<"c", "c">>,
                       SEPARATOR_ID_CTL \o S_v1)
    /\ parsed = Raised("attest")

(***************************************************************************)
(* Python dicts, in insertion order: a sequence of <<key, value>> pairs.    *)
(* Assigning to a key that is present keeps its place.                     *)
(***************************************************************************)

HasKey(d, k) == \E i \in 1..Len(d) : d[i][1] = k

Lookup(d, k) == d[CHOOSE i \in 1..Len(d) : d[i][1] = k][2]

Assign(d, k, v) ==
    IF HasKey(d, k)
    THEN [ i \in 1..Len(d) |-> IF d[i][1] = k THEN <<k, v>> ELSE d[i] ]
    ELSE Append(d, <<k, v>>)

Keys(d) == { d[i][1] : i \in 1..Len(d) }

\* list(d.values())
Values(d) == [ i \in 1..Len(d) |-> d[i][2] ]

\* the elements of a list
Range(q) == { q[i] : i \in 1..Len(q) }

(***************************************************************************)
(* find_ctl_transform_pairs                                                *)
(***************************************************************************)

S_Inv == <<"I", "n", "v">>
S_to_ACES == <<"_", "t", "o", "_", "A", "C", "E", "S">>
S_ACES_to == <<"A", "C", "E", "S", "_", "t", "o", "_">>
SEP == <<"/">>

\* os.path.basename(path): what follows the last '/'
Basename(path) ==
    LET i == RFindFrom(path, SEP, Len(path))
    IN SubSeq(path, i + 1, Len(path))

\* Mutation: the extension is left on the name.
SplitextRootKeepsExtension(p) == p

\* os.path.splitext(p)[0] for a name without '/': p up to its last '.',
\* unless only '.' precede that one
SplitextRoot(p) ==
    LET dot == RFindFrom(p, SEPARATOR_ID_CTL, Len(p))
    IN IF dot > 0 /\ \E k \in 1..(dot - 1) : p[k] # "."
       THEN SubSeq(p, 1, dot - 1)
       ELSE p

\* os.path.join(directory, filename), for a filename without '/'
PathJoin(directory, filename) == directory \o SEP \o filename

\* Mutation: the 'ACES_to_' prefix is left in the name.
PairKeyPrefixKept(ctl_transform) ==
    LET b0 == SplitextRoot(Basename(ctl_transform))
        inv == StartsWith(b0, S_Inv)
        b1 == IF inv THEN Replace(b0, S_Inv, <<>>) ELSE b0
        to_aces == EndsWith(b1, S_to_ACES)
    IN [ basename |-> IF to_aces THEN Replace(b1, S_to_ACES, <<>>) ELSE b1,
         is_forward |-> ~inv /\ ~to_aces ]

\* One turn of the loop of find_ctl_transform_pairs up to the assignment: the
\* key and the direction of a path.  re.search(".*_to_ACES$", basename) is
\* basename.endswith("_to_ACES") for a name without a line break; each
\* str.replace removes every occurrence, not only the leading or trailing one.
PairKey(ctl_transform) ==
    LET b0 == SplitextRoot(Basename(ctl_transform))
        inv == StartsWith(b0, S_Inv)
        b1 == IF inv THEN Replace(b0, S_Inv, <<>>) ELSE b0
        to_aces == EndsWith(b1, S_to_ACES)
        b2 == IF to_aces THEN Replace(b1, S_to_ACES, <<>>) ELSE b1
    IN [ basename |-> Replace(b2, S_ACES_to, <<>>),
         is_forward |-> ~inv /\ ~to_aces ]

\* Mutation: a slot that is already filled keeps its path.
AssignSlotKeepsFirst(pairs, basename, slot, ctl_transform) ==
    IF HasKey(pairs, basename) /\ HasKey(Lookup(pairs, basename), slot)
    THEN pairs
    ELSE Assign(pairs, basename,
                Assign(IF HasKey(pairs, basename) THEN Lookup(pairs, basename)
                       ELSE <<>>,
                       slot, ctl_transform))

\* ctl_transform_pairs[basename][slot] = ctl_transform on a defaultdict(dict)
AssignSlot(pairs, basename, slot, ctl_transform) ==
    Assign(pairs, basename,
           Assign(IF HasKey(pairs, basename) THEN Lookup(pairs, basename)
                  ELSE <<>>,
                  slot, ctl_transform))

RECURSIVE FindPairsFrom(_, _)
FindPairsFrom(pairs, paths) ==
    IF paths = <<>> THEN pairs
    ELSE LET k == PairKey(Head(paths))
         IN FindPairsFrom(
                AssignSlot(pairs, k.basename,
                           IF k.is_forward THEN "forward_transform"
                           ELSE "inverse_transform",
                           Head(paths)),
                Tail(paths))

find_ctl_transform_pairs(paths) == FindPairsFrom(<<>>, paths)

\* Bound: the list handed to find_ctl_transform_pairs has at most this many paths.
MaxPaths == 3

S_Foo == <<"F", "o", "o">>
S_OutputAcademy == <<"O", "u", "t", "p", "u", "t", ".", "A", "c", "a", "d", "e", "m", "y">>
S_FooInv == <<"F", "o", "o", "I", "n", "v">>
S_CTL_upper == <<".", "C", "T", "L">>
PairsDirectory == <<"/", "r", "/", "l", "i", "b">>

\* File names of the four shapes the naming convention knows, P.X, InvP.X,
\* P.ACES_to_X and P.X_to_ACES, for prefixes P and names X with and without
\* an 'Inv' in them.
PairPrefixes == { S_OutputAcademy, S_CSC }
PairNames == { S_Foo, S_FooInv }
ForwardShape(P, X) == P \o SEPARATOR_ID_CTL \o X
InvShape(P, X) == S_Inv \o P \o SEPARATOR_ID_CTL \o X
FromACESShape(P, X) == P \o SEPARATOR_ID_CTL \o S_ACES_to \o X
ToACESShape(P, X) == P \o SEPARATOR_ID_CTL \o X \o S_to_ACES
PairBasenames ==
    UNION { { ForwardShape(P, X), InvShape(P, X), FromACESShape(P, X),
              ToACESShape(P, X) } : P \in PairPrefixes, X \in PairNames }
CtlPath(basename) == PathJoin(PairsDirectory, basename \o EXTENSION_CTL)
PairPaths ==
    { CtlPath(b) : b \in PairBasenames }
    \cup { PathJoin(PairsDirectory,
                    ForwardShape(S_OutputAcademy, S_Foo) \o S_CTL_upper) }

InitPairs ==
    /\ ctl_transforms \in SeqsOf(PairPaths, 0, MaxPaths)
    /\ ctl_transform_pairs = [ status |-> "new" ]
    /\ IdlePatch /\ IdleParse /\ IdleClassify /\ IdleAmf
    /\ IdleLater

FindPairs ==
    /\ ctl_transform_pairs.status = "new"
    /\ ctl_transform_pairs' =
           [ status |-> "done",
             pairs |-> find_ctl_transform_pairs(ctl_transforms) ]
    /\ UNCHANGED <<ctl_transforms, varsPatch, varsParse, varsClassify, varsAmf>>
    /\ UNCHANGED varsLater

NextPairs == FindPairs

SpecPairs == InitPairs /\ [][NextPairs]_vars

\* The basename is one the code takes for a forward transform.
IsForwardName(N) == ~StartsWith(N, S_Inv) /\ ~EndsWith(N, S_to_ACES)

\* The path is the last of the list among those of its basename and direction.
LastOfItsSlot(path) ==
    \E i \in 1..Len(ctl_transforms) :
        /\ ctl_transforms[i] = path
        /\ \A j \in (i + 1)..Len(ctl_transforms) :
              PairKey(ctl_transforms[j]) # PairKey(path)

\* Under one key, N's path is the forward and 'Inv'+N's path the inverse.
PairedUnderOneKey(N) ==
    \E i \in 1..Len(ctl_transform_pairs.pairs) :
        LET slots == ctl_transform_pairs.pairs[i][2]
        IN /\ Len(slots) = 2
           /\ Lookup(slots, "forward_transform") = CtlPath(N)
           /\ Lookup(slots, "inverse_transform") = CtlPath(S_Inv \o N)

\* C5: pairing is symmetric: for every basename N that is a forward name, a
\* path list containing both N and 'Inv'+N (neither overwritten by a later
\* path of the same basename and direction) yields a single key holding the
\* N path as forward_transform and the 'Inv'+N path as inverse_transform.
C5_InvPairing ==
    ctl_transform_pairs.status = "done" =>
        \A N \in PairBasenames :
            ( /\ IsForwardName(N)
              /\ CtlPath(N) \in Range(ctl_transforms)
              /\ CtlPath(S_Inv \o N) \in Range(ctl_transforms)
              /\ LastOfItsSlot(CtlPath(N))
              /\ LastOfItsSlot(CtlPath(S_Inv \o N)) )
            => PairedUnderOneKey(N)

\* The list is made of exactly the two files of C6, in either order.
C6_TheTwoFiles ==
    LET fwd == CtlPath(ForwardShape(S_OutputAcademy, S_Foo))
        inv == CtlPath(InvShape(S_OutputAcademy, S_Foo))
    IN ctl_transforms \in { <<fwd, inv>>, <<inv, fwd>> }

\* C6 (as stated): given exactly Output.Academy.Foo.ctl and
\* InvOutput.Academy.Foo.ctl, the result has exactly one entry, its key is
\* 'Foo' and both its slots are filled.
C6_FooScenarioAsStated ==
    (ctl_transform_pairs.status = "done" /\ C6_TheTwoFiles) =>
        /\ Len(ctl_transform_pairs.pairs) = 1
        /\ ctl_transform_pairs.pairs[1][1] = S_Foo
        /\ Keys(ctl_transform_pairs.pairs[1][2])
              = { "forward_transform", "inverse_transform" }

\* C6 (as amended): ... the result has exactly one entry, its key is the
\* basename 'Output.Academy.Foo', its forward_transform is the
\* Output.Academy.Foo.ctl path and its inverse_transform the
\* InvOutput.Academy.Foo.ctl path.
C6_FooScenario ==
    (ctl_transform_pairs.status = "done" /\ C6_TheTwoFiles) =>
        /\ Len(ctl_transform_pairs.pairs) = 1
        /\ ctl_transform_pairs.pairs[1][1] = ForwardShape(S_OutputAcademy, S_Foo)
        /\ Keys(ctl_transform_pairs.pairs[1][2])
              = { "forward_transform", "inverse_transform" }
        /\ Lookup(ctl_transform_pairs.pairs[1][2], "forward_transform")
              = CtlPath(ForwardShape(S_OutputAcademy, S_Foo))
        /\ Lookup(ctl_transform_pairs.pairs[1][2], "inverse_transform")
              = CtlPath(InvShape(S_OutputAcademy, S_Foo))

\* C6's case: the two files were given and the pairs were computed.
C6_Witness ==
    /\ ctl_transform_pairs.status = "done"
    /\ C6_TheTwoFiles
    /\ Len(ctl_transform_pairs.pairs) = 1

(***************************************************************************)
(* generate_amf_components                                                 *)
(***************************************************************************)

\* The characters of the identifiers of the model, in code point order:
\* sorted() compares strings code point by code point.
Alphabet == <<"-", "0", "6", "A", "B", "C", "D", "_">>
CharRank(c) == CHOOSE i \in 1..Len(Alphabet) : Alphabet[i] = c

\* a < b for two strings
RECURSIVE LexLess(_, _)
LexLess(a, b) ==
    IF b = <<>> THEN FALSE
    ELSE IF a = <<>> THEN TRUE
    ELSE IF Head(a) # Head(b) THEN CharRank(Head(a)) < CharRank(Head(b))
    ELSE LexLess(Tail(a), Tail(b))

\* sorted(S) for a set of strings
RECURSIVE Sorted(_)
Sorted(S) ==
    IF S = {} THEN <<>>
    ELSE LET least == CHOOSE x \in S : \A y \in S \ {x} : LexLess(x, y)
         IN <<least>> \o Sorted(S \ {least})

\* all_transforms: the transforms of every version bucket, in order
RECURSIVE AllTransforms(_)
AllTransforms(buckets) ==
    IF buckets = <<>> THEN <<>>
    ELSE Head(buckets) \o AllTransforms(Tail(buckets))

\* amf_components[key].extend(items) on a defaultdict(list)
Extend(amf, key, items) ==
    Assign(amf, key,
           (IF HasKey(amf, key) THEN Lookup(amf, key) ELSE <<>>) \o items)

\* Mutation: the inverse is not appended to the forward id's list.
AccumulateTransformOneWay(amf, transform, include_previous) ==
    LET transform_id == transform.transformId
        previous == transform.previousEquivalentTransformIds
        a1 == Extend(amf, transform_id, <<transform_id>>)
        a2 == IF include_previous THEN Extend(a1, transform_id, previous)
              ELSE a1
    IN IF transform.inverseTransformId = <<>> THEN a2
       ELSE LET inverse_transform_id == transform.inverseTransformId[1]
                b1 == Extend(a2, inverse_transform_id, <<inverse_transform_id>>)
                b2 == Extend(b1, inverse_transform_id, <<transform_id>>)
            IN IF include_previous
               THEN Extend(b2, inverse_transform_id, previous)
               ELSE b2

\* Mutation: the previous-equivalent ids are registered whatever the flag.
AccumulateTransformAlwaysPrevious(amf, transform, include_previous) ==
    LET transform_id == transform.transformId
        previous == transform.previousEquivalentTransformIds
        a1 == Extend(amf, transform_id, <<transform_id>>)
        a2 == Extend(a1, transform_id, previous)
    IN IF transform.inverseTransformId = <<>> THEN a2
       ELSE LET inverse_transform_id == transform.inverseTransformId[1]
                b1 == Extend(a2, inverse_transform_id, <<inverse_transform_id>>)
                b2 == Extend(b1, inverse_transform_id, <<transform_id>>)
                b3 == Extend(b2, transform_id, <<inverse_transform_id>>)
            IN Extend(b3, inverse_transform_id, previous)

\* One turn of the loop over all_transforms.  inverseTransformId is <<>>
\* when the entry has no such key and <<id>> when it has.
AccumulateTransform(amf, transform, include_previous) ==
    LET transform_id == transform.transformId
        previous == transform.previousEquivalentTransformIds
        a1 == Extend(amf, transform_id, <<transform_id>>)
        a2 == IF include_previous THEN Extend(a1, transform_id, previous)
              ELSE a1
    IN IF transform.inverseTransformId = <<>> THEN a2
       ELSE LET inverse_transform_id == transform.inverseTransformId[1]
                b1 == Extend(a2, inverse_transform_id, <<inverse_transform_id>>)
                b2 == Extend(b1, inverse_transform_id, <<transform_id>>)
                b3 == Extend(b2, transform_id, <<inverse_transform_id>>)
            IN IF include_previous
               THEN Extend(b3, inverse_transform_id, previous)
               ELSE b3

RECURSIVE Accumulate(_, _, _)
Accumulate(amf, transforms, include_previous) ==
    IF transforms = <<>> THEN amf
    ELSE Accumulate(AccumulateTransform(amf, Head(transforms), include_previous),
                    Tail(transforms), include_previous)

\* The returned dict: for every key whose list is not empty, the sorted set
\* of the non-empty ids of the list.
RECURSIVE SortedComponents(_)
SortedComponents(amf) ==
    IF amf = <<>> THEN <<>>
    ELSE LET key == Head(amf)[1]
             transform_ids == Head(amf)[2]
         IN (IF transform_ids # <<>>
             THEN << <<key, Sorted({ id \in Range(transform_ids) : id # <<>> })>> >>
             ELSE <<>>)
            \o SortedComponents(Tail(amf))

generate_amf_components(data, include_previous) ==
    SortedComponents(Accumulate(<<>>, AllTransforms(data), include_previous))

\* Bound: the corpus holds at most this many transforms.
MaxTransforms == 2

\* Identifiers of the corpus; the empty string is one of them.
AmfIds == { <<>>, <<"A">>, <<"B">> }
PreviousLists == { <<>>, << <<"C">> >>, << <<"A">> >> }
Transforms ==
    [ transformId : AmfIds,
      inverseTransformId : { <<>> } \cup { <<id>> : id \in AmfIds },
      previousEquivalentTransformIds : PreviousLists ]

\* No bucket for no transform; else two version buckets: the first transform,
\* and the others.
Buckets(q) == IF q = <<>> THEN <<>> ELSE << <<Head(q)>>, Tail(q) >>

InitAmf ==
    /\ json_data \in { Buckets(q) : q \in SeqsOf(Transforms, 0, MaxTransforms) }
    /\ include_previous_transform_ids \in BOOLEAN
    /\ amf_components = [ status |-> "new" ]
    /\ IdlePatch /\ IdleParse /\ IdlePairs /\ IdleClassify
    /\ IdleLater

GenerateAmfComponents ==
    /\ amf_components.status = "new"
    /\ amf_components' =
           [ status |-> "done",
             graph |-> generate_amf_components(json_data,
                                               include_previous_transform_ids) ]
    /\ UNCHANGED <<json_data, include_previous_transform_ids, varsPatch,
                   varsParse, varsPairs, varsClassify>>
    /\ UNCHANGED varsLater

NextAmf == GenerateAmfComponents

SpecAmf == InitAmf /\ [][NextAmf]_vars

\* Every id that appears anywhere in the corpus.
CorpusIds ==
    UNION { { t.transformId } \cup Range(t.inverseTransformId)
            \cup Range(t.previousEquivalentTransformIds) :
            t \in Range(AllTransforms(json_data)) }

\* graph[id] as a set; an id with no key has the empty set.
Related(id) ==
    IF HasKey(amf_components.graph, id)
    THEN Range(Lookup(amf_components.graph, id))
    ELSE {}

S_aces_core == <<"a", "c", "e", "s", "-", "c", "o", "r", "e">>
S_aces_input == <<"a", "c", "e", "s", "-", "i", "n", "p", "u", "t", "-", "a", "n", "d", "-", "c", "o", "l", "o", "r", "s", "p", "a", "c", "e", "s">>
S_aces_look == <<"a", "c", "e", "s", "-", "l", "o", "o", "k">>
S_aces_output == <<"a", "c", "e", "s", "-", "o", "u", "t", "p", "u", "t">>
S_lib == <<"l", "i", "b">>
S_csc == <<"c", "s", "c">>
S_look == <<"l", "o", "o", "k">>
S_output == <<"o", "u", "t", "p", "u", "t">>

TRANSFORM_FAMILIES_CTL ==
    << <<S_aces_core, S_lib>>, <<S_aces_input, S_csc>>,
       <<S_aces_look, S_look>>, <<S_aces_output, S_output>> >>

\* TRANSFORM_FAMILIES_CTL.get(part, part)
FamilyGet(part) ==
    IF HasKey(TRANSFORM_FAMILIES_CTL, part)
    THEN Lookup(TRANSFORM_FAMILIES_CTL, part)
    ELSE part

\* sep.join(parts)
RECURSIVE Join(_, _)
Join(parts, sep) ==
    IF parts = <<>> THEN <<>>
    ELSE IF Len(parts) = 1 THEN parts[1]
    ELSE parts[1] \o sep \o Join(Tail(parts), sep)

\* The longest common prefix of two lists.
RECURSIVE CommonPrefix(_, _)
CommonPrefix(a, b) ==
    IF a = <<>> \/ b = <<>> \/ Head(a) # Head(b) THEN <<>>
    ELSE <<Head(a)>> \o CommonPrefix(Tail(a), Tail(b))

RECURSIVE CommonPrefixAll(_)
CommonPrefixAll(lists) ==
    IF Len(lists) = 1 THEN lists[1]
    ELSE CommonPrefix(lists[1], CommonPrefixAll(Tail(lists)))

\* paths_common_ancestor(*paths): the common ancestor of the paths, the
\* longest common prefix of their '/'-separated components.
paths_common_ancestor(paths) ==
    Join(CommonPrefixAll([ i \in 1..Len(paths) |-> Split(paths[i], SEP) ]), SEP)

\* itertools.chain.from_iterable(d.values()): the lists of a dict, chained
RECURSIVE Chain(_)
Chain(d) == IF d = <<>> THEN <<>> ELSE Head(d)[2] \o Chain(Tail(d))

\* The family and the genus of a directory.  Every part of the relative
\* path goes through the family table, the parts of the genus too.
FamilyGenus(root_directory, directory) ==
    LET sub_directory == Replace(directory, root_directory \o SEP, <<>>)
        split == Split(sub_directory, SEP)
        parts == [ i \in 1..Len(split) |-> FamilyGet(split[i]) ]
    IN [ family |-> Head(parts),
         genus |-> IF Tail(parts) = <<>> THEN VALUE_DEFAULT_UNDEFINED
                   ELSE Join(Tail(parts), SEP) ]

\* optional(value, default): the default when the value is None
Optional(value, default) == IF value.given THEN value.list ELSE default

\* Mutation: every record is given one and the same list object.
CTLTransformSharedSiblings(path, family, genus, lists) ==
    [ path |-> path, family |-> family, genus |-> genus, siblings |-> 1 ]

\* CTLTransform(path, family, genus): the record of a file that can be read
\* and parsed.  The paths of the model are absolute and normalised, which
\* os.path.abspath(os.path.normpath(path)) leaves as they are.  siblings is
\* the identity of the list object the record holds: no siblings are
\* passed, so optional(siblings, []) gives the list the expression [] has
\* just made, the next of the list objects made so far (lists).
CTLTransform(path, family, genus, lists) ==
    [ path |-> path, family |-> family, genus |-> genus,
      siblings |-> Optional([ given |-> FALSE ], Len(lists) + 1) ]

\* The list objects once the [] of a construction has made its list.
NewSiblings(lists) == Append(lists, <<>>)

\* forward.siblings.append(inverse) on the list object of the record: a
\* sibling is held by its path
WithSibling(lists, ctl_transform, sibling) ==
    [ lists EXCEPT ![ctl_transform.siblings] = Append(@, sibling.path) ]

\* Mutation: the entry is filed under the genus first and the family next.
AssignEntryGenusFirst(taxonomy, family, genus, basename, entry) ==
    LET genera == IF HasKey(taxonomy, genus) THEN Lookup(taxonomy, genus)
                  ELSE <<>>
        entries == IF HasKey(genera, family) THEN Lookup(genera, family)
                   ELSE <<>>
    IN Assign(taxonomy, genus,
              Assign(genera, family, Assign(entries, basename, entry)))

\* classified_ctl_transforms[family][genus][basename] = entry, on a
\* defaultdict of defaultdicts of dicts
AssignEntry(taxonomy, family, genus, basename, entry) ==
    LET genera == IF HasKey(taxonomy, family) THEN Lookup(taxonomy, family)
                  ELSE <<>>
        entries == IF HasKey(genera, genus) THEN Lookup(genera, genus)
                   ELSE <<>>
    IN Assign(taxonomy, family,
              Assign(genera, genus, Assign(entries, basename, entry)))

\* The body of the loop over the pairs of one directory; bad is the set of
\* files whose CTLTransform construction raises, lists the list objects the
\* records constructed so far hold as their siblings.
ClassifyEntry(taxonomy, lists, fg, basename, pairs, bad) ==
    IF Len(pairs) = 1
    THEN IF pairs[1][2] \in bad THEN Raised("CTLTransform")
         ELSE [ status |-> "done",
                taxonomy |->
                    AssignEntry(taxonomy, fg.family, fg.genus, basename,
                        [ kind |-> "CTLTransform",
                          ctl_transform |->
                              CTLTransform(pairs[1][2], fg.family, fg.genus,
                                           lists) ]),
                lists |-> NewSiblings(lists) ]
    ELSE IF Len(pairs) = 2
    THEN LET forward_path == Lookup(pairs, "forward_transform")
             inverse_path == Lookup(pairs, "inverse_transform")
             forward_ctl_transform ==
                 CTLTransform(forward_path, fg.family, fg.genus, lists)
             lists1 == NewSiblings(lists)
             inverse_ctl_transform ==
                 CTLTransform(inverse_path, fg.family, fg.genus, lists1)
             lists2 == NewSiblings(lists1)
             lists3 == WithSibling(lists2, forward_ctl_transform,
                                   inverse_ctl_transform)
             lists4 == WithSibling(lists3, inverse_ctl_transform,
                                   forward_ctl_transform)
         IN IF forward_path \in bad \/ inverse_path \in bad
            THEN Raised("CTLTransform")
            ELSE [ status |-> "done",
                   taxonomy |->
                       AssignEntry(taxonomy, fg.family, fg.genus, basename,
                           [ kind |-> "CTLTransformPair",
                             forward_transform |-> forward_ctl_transform,
                             inverse_transform |-> inverse_ctl_transform ]),
                   lists |-> lists4 ]
    ELSE [ status |-> "done", taxonomy |-> taxonomy, lists |-> lists ]

\* Mutation: an entry whose record cannot be constructed is skipped.
RECURSIVE ClassifyPairsSkipping(_, _, _, _, _)
ClassifyPairsSkipping(taxonomy, lists, fg, pairs, bad) ==
    IF pairs = <<>>
    THEN [ status |-> "done", taxonomy |-> taxonomy, lists |-> lists ]
    ELSE LET next == ClassifyEntry(taxonomy, lists, fg, Head(pairs)[1],
                                   Head(pairs)[2], bad)
         IN IF next.status = "raised"
            THEN ClassifyPairsSkipping(taxonomy, lists, fg, Tail(pairs), bad)
            ELSE ClassifyPairsSkipping(next.taxonomy, next.lists, fg,
                                       Tail(pairs), bad)

\* The loop over find_ctl_transform_pairs(ctl_transforms).items(); a raised
\* exception ends it.
RECURSIVE ClassifyPairs(_, _, _, _, _)
ClassifyPairs(taxonomy, lists, fg, pairs, bad) ==
    IF pairs = <<>>
    THEN [ status |-> "done", taxonomy |-> taxonomy, lists |-> lists ]
    ELSE LET next == ClassifyEntry(taxonomy, lists, fg, Head(pairs)[1],
                                   Head(pairs)[2], bad)
         IN IF next.status = "raised" THEN next
            ELSE ClassifyPairs(next.taxonomy, next.lists, fg, Tail(pairs), bad)

\* The loop over unclassified_ctl_transforms.items().
RECURSIVE ClassifyDirectories(_, _, _, _, _)
ClassifyDirectories(taxonomy, lists, root_directory, directories, bad) ==
    IF directories = <<>>
    THEN [ status |-> "done", taxonomy |-> taxonomy, lists |-> lists ]
    ELSE LET directory == Head(directories)[1]
             next == ClassifyPairs(
                         taxonomy, lists,
                         FamilyGenus(root_directory, directory),
                         find_ctl_transform_pairs(Head(directories)[2]), bad)
         IN IF next.status = "raised" THEN next
            ELSE ClassifyDirectories(next.taxonomy, next.lists, root_directory,
                                     Tail(directories), bad)

\* classify_aces_ctl_transforms(unclassified): the taxonomy (with the list
\* objects its records hold), or the exception of the first record that
\* cannot be constructed.
classify_aces_ctl_transforms(unclassified, bad) ==
    ClassifyDirectories(<<>>, <<>>,
                        paths_common_ancestor(Chain(unclassified)),
                        unclassified, bad)

\* Mutation: a pair gives its forward transform only.
EntryTransformsForwardOnly(entry) ==
    IF entry.kind = "CTLTransform" THEN <<entry.ctl_transform>>
    ELSE <<entry.forward_transform>>

\* The records of one taxonomy entry, a pair giving two.
EntryTransforms(entry) ==
    IF entry.kind = "CTLTransform" THEN <<entry.ctl_transform>>
    ELSE <<entry.forward_transform, entry.inverse_transform>>

RECURSIVE FlattenEntries(_)
FlattenEntries(entries) ==
    IF entries = <<>> THEN <<>>
    ELSE EntryTransforms(Head(entries)[2]) \o FlattenEntries(Tail(entries))

RECURSIVE FlattenGenera(_)
FlattenGenera(genera) ==
    IF genera = <<>> THEN <<>>
    ELSE FlattenEntries(Head(genera)[2]) \o FlattenGenera(Tail(genera))

\* unclassify_ctl_transforms(classified): the records in iteration order
RECURSIVE unclassify_ctl_transforms(_)
unclassify_ctl_transforms(taxonomy) ==
    IF taxonomy = <<>> THEN <<>>
    ELSE FlattenGenera(Head(taxonomy)[2])
         \o unclassify_ctl_transforms(Tail(taxonomy))

\* Bound: a discovery finds at most this many files.
MaxDiscovered == 3

S_cc == <<"c", "c">>
S_InvCSC == S_Inv \o S_CSC
ClassifyDirectoryNames ==
    { <<"/", "r", "/">> \o S_aces_core, <<"/", "r", "/">> \o S_lib,
      <<"/", "r", "/">> \o S_lib \o SEP \o S_aces_core }
ClassifyPrefixes == { S_CSC, S_InvCSC }
ClassifyNames == { S_cc }
ClassifyFilenames ==
    UNION { { FromACESShape(P, X) \o EXTENSION_CTL,
              ToACESShape(P, X) \o EXTENSION_CTL } :
            P \in ClassifyPrefixes, X \in ClassifyNames }
ClassifyPaths ==
    { PathJoin(d, f) : d \in ClassifyDirectoryNames, f \in ClassifyFilenames }

\* os.path.dirname(path)
Dirname(path) == RSplit1(path, SEP)[1]

\* ctl_transforms[directory].append(os.path.join(directory, filename)) for
\* the files in the order the walk meets them
RECURSIVE GroupByDirectory(_, _)
GroupByDirectory(found, paths) ==
    IF paths = <<>> THEN found
    ELSE GroupByDirectory(
             Extend(found, Dirname(Head(paths)), <<Head(paths)>>),
             Tail(paths))

\* os.walk is top-down: a directory comes before the directories under it
WalkOrder(found) ==
    \A i, j \in 1..Len(found) :
        StartsWith(found[i][1], found[j][1] \o SEP) => j < i

Discoveries ==
    { found \in
        { GroupByDirectory(<<>>, q) :
            q \in { r \in SeqsOf(ClassifyPaths, 1, MaxDiscovered) :
                      \A i, j \in 1..Len(r) : i # j => r[i] # r[j] } } :
        WalkOrder(found) }

InitClassify ==
    /\ IdlePatch /\ IdleParse /\ IdlePairs /\ IdleAmf
    /\ IdleLater
    /\ unclassified_ctl_transforms \in Discoveries
    /\ unreadable \in { {} } \cup
           { {p} : p \in Range(Chain(unclassified_ctl_transforms)) }
    /\ classified_ctl_transforms = [ status |-> "new" ]
    /\ flattened = [ status |-> "new" ]

Classify ==
    /\ classified_ctl_transforms.status = "new"
    /\ classified_ctl_transforms' =
           classify_aces_ctl_transforms(unclassified_ctl_transforms,
                                        unreadable)
    /\ UNCHANGED <<unclassified_ctl_transforms, unreadable, flattened>>
    /\ UNCHANGED <<varsPatch, varsParse, varsPairs, varsAmf>>
    /\ UNCHANGED varsLater

Unclassify ==
    /\ classified_ctl_transforms.status = "done"
    /\ flattened.status = "new"
    /\ flattened' =
           [ status |-> "done",
             transforms |->
                 unclassify_ctl_transforms(classified_ctl_transforms.taxonomy) ]
    /\ UNCHANGED <<unclassified_ctl_transforms, unreadable,
                   classified_ctl_transforms>>
    /\ UNCHANGED <<varsPatch, varsParse, varsPairs, varsAmf>>
    /\ UNCHANGED varsLater

NextClassify == Classify \/ Unclassify

SpecClassify == InitClassify /\ [][NextClassify]_vars

\* The files of a discovery, the root the classification computes for it,
\* and the family and genus of its i-th directory.
DiscoveredPaths == Chain(unclassified_ctl_transforms)
RootDirectory == paths_common_ancestor(DiscoveredPaths)
DirectoryFamilyGenus(i) ==
    FamilyGenus(RootDirectory, unclassified_ctl_transforms[i][1])
DirectoryPaths(i) == Range(unclassified_ctl_transforms[i][2])
Directories == 1..Len(unclassified_ctl_transforms)
Classified == classified_ctl_transforms.status = "done"
Flattened == flattened.status = "done"

\* The slots of a taxonomy: an entry that is a record is one slot, a pair
\* is two.
EntrySlots(family, genus, basename, entry) ==
    IF entry.kind = "CTLTransform"
    THEN { [ family |-> family, genus |-> genus, basename |-> basename,
             slot |-> "single", path |-> entry.ctl_transform.path ] }
    ELSE { [ family |-> family, genus |-> genus, basename |-> basename,
             slot |-> "forward_transform",
             path |-> entry.forward_transform.path ],
           [ family |-> family, genus |-> genus, basename |-> basename,
             slot |-> "inverse_transform",
             path |-> entry.inverse_transform.path ] }
TaxonomySlots ==
    UNION { UNION { UNION { EntrySlots(f[1], g[1], e[1], e[2]) :
                            e \in Range(g[2]) } :
                    g \in Range(f[2]) } :
            f \in Range(classified_ctl_transforms.taxonomy) }
SlotsOf(path) == { s \in TaxonomySlots : s.path = path }

\* No two discovered files collide: two files of one directory that
\* normalise to the same basename have opposite directions, and no two
\* directories of the same family and genus hold files that normalise to
\* the same basename.
NoCollision ==
    \A i, j \in Directories :
        \A p \in DirectoryPaths(i), q \in DirectoryPaths(j) :
            (/\ p # q
             /\ DirectoryFamilyGenus(i) = DirectoryFamilyGenus(j)
             /\ PairKey(p).basename = PairKey(q).basename)
            => (i = j /\ PairKey(p).is_forward # PairKey(q).is_forward)

\* C4 as stated: every classification that returns places every discovered
\* path in exactly one taxonomy slot, and the flattened taxonomy has exactly
\* as many records as the discovery has file paths.
C4_PartitionAsStated ==
    /\ Classified =>
           \A p \in Range(DiscoveredPaths) : Cardinality(SlotsOf(p)) = 1
    /\ Flattened => Len(flattened.transforms) = Len(DiscoveredPaths)

\* C4: every classification that returns places every discovered path in at
\* most one taxonomy slot, and the flattened taxonomy has one record per
\* slot, never more than the discovery has file paths; every path is in
\* exactly one slot, and the record count equals the file count, exactly
\* when no two discovered files collide.
C4_Partition ==
    /\ Classified =>
           /\ \A p \in Range(DiscoveredPaths) : Cardinality(SlotsOf(p)) <= 1
           /\ \A s \in TaxonomySlots : s.path \in Range(DiscoveredPaths)
           /\ (\A p \in Range(DiscoveredPaths) : Cardinality(SlotsOf(p)) = 1)
                  <=> NoCollision
    /\ Flattened =>
           /\ Len(flattened.transforms) = Cardinality(TaxonomySlots)
           /\ Len(flattened.transforms) <= Len(DiscoveredPaths)
           /\ (Len(flattened.transforms) = Len(DiscoveredPaths))
                  <=> NoCollision

C4_Witness ==
    /\ Flattened
    /\ NoCollision
    /\ Len(DiscoveredPaths) = 3
    /\ Len(flattened.transforms) = 3
    /\ \E s \in TaxonomySlots : s.slot = "inverse_transform"

\* The two files of the pair of prefix P and name X in the i-th directory.
FromACESFile(P, X, i) ==
    PathJoin(unclassified_ctl_transforms[i][1],
             FromACESShape(P, X) \o EXTENSION_CTL)
ToACESFile(P, X, i) ==
    PathJoin(unclassified_ctl_transforms[i][1],
             ToACESShape(P, X) \o EXTENSION_CTL)

\* The i-th directory holds the two files, and no other file of a directory
\* of its family and genus normalises to 'P.X'.
HoldsThePair(P, X, i) ==
    /\ FromACESFile(P, X, i) \in DirectoryPaths(i)
    /\ ToACESFile(P, X, i) \in DirectoryPaths(i)
    /\ \A j \in Directories :
           DirectoryFamilyGenus(j) = DirectoryFamilyGenus(i) =>
               \A q \in DirectoryPaths(j) \
                        { FromACESFile(P, X, i), ToACESFile(P, X, i) } :
                   PairKey(q).basename # ForwardShape(P, X)

\* The two files are the pair of the entry 'P.X' and are in no other entry.
ClassifiedAsThePair(P, X, i) ==
    LET fg == DirectoryFamilyGenus(i)
        taxonomy == classified_ctl_transforms.taxonomy
        key == ForwardShape(P, X)
    IN /\ HasKey(taxonomy, fg.family)
       /\ HasKey(Lookup(taxonomy, fg.family), fg.genus)
       /\ HasKey(Lookup(Lookup(taxonomy, fg.family), fg.genus), key)
       /\ LET entry ==
                  Lookup(Lookup(Lookup(taxonomy, fg.family), fg.genus), key)
          IN /\ entry.kind = "CTLTransformPair"
             /\ entry.forward_transform.path = FromACESFile(P, X, i)
             /\ entry.inverse_transform.path = ToACESFile(P, X, i)
       /\ \A s \in SlotsOf(FromACESFile(P, X, i))
                   \cup SlotsOf(ToACESFile(P, X, i)) :
              s.basename = key /\ s.family = fg.family /\ s.genus = fg.genus

PlainPrefixAndName(P, X) ==
    /\ ~StartsWith(P, S_Inv)
    /\ X # S_ACES
    /\ ~Contains(P, S_ACES_to) /\ ~Contains(P, S_to_ACES)
    /\ ~Contains(X, S_ACES_to) /\ ~Contains(X, S_to_ACES)

S_NL == <<"\n">>
S_open_ACEStransformID == <<"<", "A", "C", "E", "S", "t", "r", "a", "n", "s", "f", "o", "r", "m", "I", "D", ">">>
S_close_ACEStransformID == <<"<", "/", "A", "C", "E", "S", "t", "r", "a", "n", "s", "f", "o", "r", "m", "I", "D", ">">>
S_open_ACESuserName == <<"<", "A", "C", "E", "S", "u", "s", "e", "r", "N", "a", "m", "e", ">">>
S_close_ACESuserName == <<"<", "/", "A", "C", "E", "S", "u", "s", "e", "r", "N", "a", "m", "e", ">">>
S_comment == <<"/", "/">>
S_CONSTANTS == <<"=", "=", "=", "=", "=", "=", "=", "=", "=", "=", "=", "=", " ", "C", "O", "N", "S", "T", "A", "N", "T", "S", " ", "=", "=", "=", "=", "=", "=", "=", "=", "=", "=", "=", "=", " ", "/", "/">>
S_Written_by == <<"W", "r", "i", "t", "t", "e", "n", " ", "b", "y", " ">>
S_IDT_maker == <<"_", "I", "D", "T", "_", "m", "a", "k", "e", "r", ".", "p", "y", " ", "v">>
S_on == <<" ", "o", "n", " ">>

\* The characters str.strip() removes.
Whitespace == { " ", "\t", "\n", "\r" }

RECURSIVE LStrip(_)
LStrip(s) ==
    IF s # <<>> /\ Head(s) \in Whitespace THEN LStrip(Tail(s)) ELSE s

RECURSIVE RStrip(_)
RStrip(s) ==
    IF s # <<>> /\ s[Len(s)] \in Whitespace
    THEN RStrip(SubSeq(s, 1, Len(s) - 1)) ELSE s

\* s.strip()
Strip(s) == RStrip(LStrip(s))

\* re.search("<TAG>(.*)</TAG>", line): the group between the first opening
\* tag and the last closing tag after it, in a one-element list, or the
\* empty list when the line does not match.
TagSearch(line, open, close) ==
    LET i == FindFrom(line, open, 1)
        j == RFindFrom(line, close, Len(line) - Len(close) + 1)
    IN IF i = 0 \/ j < i + Len(open) THEN <<>>
       ELSE <<SubSeq(line, i + Len(open), j - 1)>>

\* re.sub("Written by .*_IDT_maker\.py v.* on .*", "", line): the match
\* starts at the first 'Written by ' that the other two literals follow in
\* order, and runs to the end of the line.
SubWrittenBy(line) ==
    LET i == FindFrom(line, S_Written_by, 1)
        j == IF i = 0 THEN 0
             ELSE FindFrom(line, S_IDT_maker, i + Len(S_Written_by))
        k == IF j = 0 THEN 0 ELSE FindFrom(line, S_on, j + Len(S_IDT_maker))
    IN IF k = 0 THEN line ELSE SubSeq(line, 1, i - 1)

\* The loop over PATTERNS_DESCRIPTION_CTL: the first pattern is a literal.
SubPatterns(line) == SubWrittenBy(Replace(line, S_CONSTANTS, <<>>))

\* filter(None, (line.strip() for line in code.split("\n")))
RECURSIVE NonEmpty(_)
NonEmpty(lines) ==
    IF lines = <<>> THEN <<>>
    ELSE IF Head(lines) = <<>> THEN NonEmpty(Tail(lines))
    ELSE <<Head(lines)>> \o NonEmpty(Tail(lines))

StrippedLines(text) ==
    LET split == Split(text, S_NL)
    IN NonEmpty([ i \in 1..Len(split) |-> Strip(split[i]) ])

\* Mutation: a malformed identifier tag leaves the identifier undefined.
IdentifierOfTagLenient(text) ==
    IF ACESTransformID(text).status = "raised"
    THEN UndefinedID(VALUE_DEFAULT_UNDEFINED)
    ELSE ACESTransformID(text)

\* self._aces_transform_id = ACESTransformID(search.group(1))
IdentifierOfTag(text) == ACESTransformID(text)

\* Mutation: a line that is neither a tag nor a comment is skipped and the
\* scan goes on.
RECURSIVE ParseHeaderNoStop(_, _)
ParseHeaderNoStop(lines, ctl_transform) ==
    IF lines = <<>>
    THEN [ ctl_transform EXCEPT !.description = Strip(@) ]
    ELSE
      LET line == Head(lines)
          id == TagSearch(line, S_open_ACEStransformID,
                          S_close_ACEStransformID)
          user == TagSearch(line, S_open_ACESuserName, S_close_ACESuserName)
      IN IF id # <<>>
         THEN LET parsed_id == IdentifierOfTag(id[1])
              IN IF parsed_id.status = "raised" THEN parsed_id
                 ELSE ParseHeaderNoStop(Tail(lines),
                          [ ctl_transform EXCEPT
                                !.aces_transform_id = parsed_id ])
         ELSE IF user # <<>>
         THEN ParseHeaderNoStop(Tail(lines),
                  [ ctl_transform EXCEPT !.user_name = user[1] ])
         ELSE IF StartsWith(line, S_comment)
         THEN ParseHeaderNoStop(Tail(lines),
                  [ ctl_transform EXCEPT
                        !.description =
                            @ \o SubPatterns(Strip(SubSeq(line, 3, Len(line))))
                              \o S_NL ])
         ELSE ParseHeaderNoStop(Tail(lines), ctl_transform)

\* The loop of _parse over the lines, from the record __init__ has set up.
RECURSIVE ParseHeader(_, _)
ParseHeader(lines, ctl_transform) ==
    IF lines = <<>>
    THEN [ ctl_transform EXCEPT !.description = Strip(@) ]
    ELSE
      LET line == Head(lines)
          id == TagSearch(line, S_open_ACEStransformID,
                          S_close_ACEStransformID)
          user == TagSearch(line, S_open_ACESuserName, S_close_ACESuserName)
      IN IF id # <<>>
         THEN LET parsed_id == IdentifierOfTag(id[1])
              IN IF parsed_id.status = "raised" THEN parsed_id
                 ELSE ParseHeader(Tail(lines),
                          [ ctl_transform EXCEPT
                                !.aces_transform_id = parsed_id ])
         ELSE IF user # <<>>
         THEN ParseHeader(Tail(lines),
                  [ ctl_transform EXCEPT !.user_name = user[1] ])
         ELSE IF StartsWith(line, S_comment)
         THEN ParseHeader(Tail(lines),
                  [ ctl_transform EXCEPT
                        !.description =
                            @ \o SubPatterns(Strip(SubSeq(line, 3, Len(line))))
                              \o S_NL ])
         ELSE [ ctl_transform EXCEPT !.description = Strip(@) ]

\* CTLTransform(path): __init__ sets the defaults and calls _parse, which
\* opens the file; the record, or the exception.
LoadCTLTransform(file) ==
    IF ~file.readable THEN Raised("OSError")
    ELSE ParseHeader(StrippedLines(file.text),
             [ status |-> "ok",
               code |-> file.text,
               aces_transform_id |-> UndefinedID(VALUE_DEFAULT_UNDEFINED),
               user_name |-> VALUE_DEFAULT_UNDEFINED,
               description |-> VALUE_DEFAULT_UNDEFINED ])

\* Bound: a file has at most this many lines.
MaxLines == 3

S_LibID == MakeID(URN_CTL, S_Lib, <<"c", "c">>, SEPARATOR_ID_CTL \o S_v1)
S_ODTID ==
    MakeID(URN_CTL, <<"O", "D", "T">>, <<"c", "c">>, SEPARATOR_ID_CTL \o S_v1)
TagLine(open, text, close) == S_comment \o <<" ">> \o open \o text \o close

\* The lines files are made of: blank, comments with and without blanks
\* around them, the two tags (an identifier of the grammar, one of an
\* unknown type, the text 'undefined'), the two boilerplate patterns and a
\* line of code.
FileLines ==
    { <<>>,
      <<"/", "/", " ", "f", "o", "o">>,
      <<" ", " ", "/", "/", "b", "a", "r", " ", "b", "a", "z", " ", " ">>,
      TagLine(S_open_ACEStransformID, S_LibID, S_close_ACEStransformID),
      TagLine(S_open_ACEStransformID, S_ODTID, S_close_ACEStransformID),
      TagLine(S_open_ACEStransformID, VALUE_DEFAULT_UNDEFINED,
              S_close_ACEStransformID),
      TagLine(S_open_ACESuserName, <<"c", "c">>, S_close_ACESuserName),
      S_comment \o <<" ">> \o S_CONSTANTS,
      S_comment \o <<" ">> \o S_Written_by \o <<"x", "_", "I", "D", "T", "_", "m", "a", "k", "e", "r", ".", "p", "y", " ", "v", "1", " ", "o", "n", " ", "M", "o", "n">>,
      <<"f", "l", "o", "a", "t", " ", "x", ";">> }

Files ==
    { [ readable |-> TRUE, text |-> Join(q, S_NL) ] :
        q \in SeqsOf(FileLines, 0, MaxLines) }
    \cup { [ readable |-> FALSE ] }

InitLoad ==
    /\ IdlePatch /\ IdleParse /\ IdlePairs /\ IdleClassify /\ IdleAmf
    /\ IdleFilter /\ IdleDiscover /\ IdleQuery
    /\ ctl_file \in Files
    /\ loaded = [ status |-> "new" ]

\* CTLTransform(path) is constructed, or raises.
Load ==
    /\ loaded.status = "new"
    /\ loaded' = LoadCTLTransform(ctl_file)
    /\ UNCHANGED <<ctl_file, varsPatch, varsParse, varsPairs, varsClassify,
                   varsAmf, varsFilter, varsDiscover, varsQuery>>

NextLoad == Load

SpecLoad == InitLoad /\ [][NextLoad]_vars

\* The header of a file: its non-blank lines, trimmed, up to the first one
\* that is neither a tag line nor a comment line.
IsIdentifierTagLine(line) ==
    TagSearch(line, S_open_ACEStransformID, S_close_ACEStransformID) # <<>>
IsUserNameTagLine(line) ==
    TagSearch(line, S_open_ACESuserName, S_close_ACESuserName) # <<>>
IsHeaderLine(line) ==
    IsIdentifierTagLine(line) \/ IsUserNameTagLine(line)
    \/ StartsWith(line, S_comment)
RECURSIVE HeaderOf(_)
HeaderOf(lines) ==
    IF lines = <<>> \/ ~IsHeaderLine(Head(lines)) THEN <<>>
    ELSE <<Head(lines)>> \o HeaderOf(Tail(lines))
Header == HeaderOf(StrippedLines(ctl_file.text))

\* The identifiers of the identifier tags of the header, in file order.
RECURSIVE IdentifiersOf(_)
IdentifiersOf(lines) ==
    IF lines = <<>> THEN <<>>
    ELSE (IF IsIdentifierTagLine(Head(lines))
          THEN TagSearch(Head(lines), S_open_ACEStransformID,
                         S_close_ACEStransformID)
          ELSE <<>>) \o IdentifiersOf(Tail(lines))
HeaderIdentifiers == IdentifiersOf(Header)
Loaded == loaded.status # "new" /\ ctl_file.readable
IdentifierIsUndefined ==
    loaded.aces_transform_id = UndefinedID(VALUE_DEFAULT_UNDEFINED)

RECURSIVE CommentTexts(_)
CommentTexts(lines) ==
    IF lines = <<>> THEN <<>>
    ELSE (IF ~IsIdentifierTagLine(Head(lines))
             /\ ~IsUserNameTagLine(Head(lines))
          THEN <<SubPatterns(Strip(SubSeq(Head(lines), 3, Len(Head(lines)))))>>
          ELSE <<>>) \o CommentTexts(Tail(lines))

\* C13: the description of a loaded record is the concatenation, in file
\* order and joined by newlines, of the header's comment lines that are not
\* tag lines (marker stripped, trimmed, boilerplate removed), the whole
\* trimmed, and nothing else; without such lines there is no description
\* text (the description is empty or the 'undefined' default).
C13_DescriptionIsTheComments ==
    (Loaded /\ loaded.status = "ok") =>
        IF CommentTexts(Header) = <<>>
        THEN loaded.description \in { <<>>, VALUE_DEFAULT_UNDEFINED }
        ELSE loaded.description = Strip(Join(CommentTexts(Header), S_NL))

(***************************************************************************)
(* filter_ctl_transforms and the default filterer                          *)
(***************************************************************************)

S_Alexa == <<"A", "l", "e", "x", "a">>
S_Alexa_v3_logC == <<"A", "l", "e", "x", "a", "-", "v", "3", "-", "l", "o", "g", "C">>
S_arri == <<"a", "r", "r", "i">>

\* Mutation: every path with 'Alexa' in it is excluded.
ExclusionFiltererNoVariant(ctl_transform) ==
    ~Contains(ctl_transform.path, S_Alexa)

\* _exclusion_filterer_ARRIIDT(ctl_transform)
ExclusionFiltererARRIIDT(ctl_transform) ==
    IF ~Contains(ctl_transform.path, S_Alexa) THEN TRUE
    ELSE IF Contains(ctl_transform.path, S_Alexa_v3_logC) THEN TRUE
    ELSE FALSE

TRANSFORM_FILTERERS_DEFAULT_CTL == <<"_exclusion_filterer_ARRIIDT">>

\* filterer(ctl_transform), for the default filterer and for the predicates
\* callers are given here: lambda x: x.genus == "arri",
\* lambda x: "CSC" in x.path, lambda x: False.
CallFilterer(filterer, ctl_transform) ==
    CASE filterer = "_exclusion_filterer_ARRIIDT" ->
             ExclusionFiltererARRIIDT(ctl_transform)
      [] filterer = "genus_is_arri" -> ctl_transform.genus = S_arri
      [] filterer = "CSC_in_path" -> Contains(ctl_transform.path, S_CSC)
      [] filterer = "nothing" -> FALSE

\* Mutation: a record is kept when some filterer returns true.
IncludedByAny(filterer_list, ctl_transform) ==
    \E i \in 1..Len(filterer_list) :
        CallFilterer(filterer_list[i], ctl_transform)

\* included = True; for filterer in filterers: included *= filterer(x)
RECURSIVE Included(_, _)
Included(filterer_list, ctl_transform) ==
    IF filterer_list = <<>> THEN TRUE
    ELSE CallFilterer(Head(filterer_list), ctl_transform)
         /\ Included(Tail(filterer_list), ctl_transform)

\* The loop that appends the included records.
RECURSIVE FilterLoop(_, _)
FilterLoop(transforms, filterer_list) ==
    IF transforms = <<>> THEN <<>>
    ELSE (IF Included(filterer_list, Head(transforms))
          THEN <<Head(transforms)>> ELSE <<>>)
         \o FilterLoop(Tail(transforms), filterer_list)

\* filter_ctl_transforms(ctl_transforms, filterers)
filter_ctl_transforms(transforms, given_filterers) ==
    FilterLoop(IF transforms.kind = "Mapping"
               THEN unclassify_ctl_transforms(transforms.taxonomy)
               ELSE transforms.list,
               Optional(given_filterers, TRANSFORM_FILTERERS_DEFAULT_CTL))

\* Bounds: the records of an input and the predicates of a list.
MaxRecords == 3
MaxFilterers == 2

FilterPaths ==
    { <<"/", "r", "/", "A", "l", "e", "x", "a", "-", "v", "3", "-", "l", "o", "g", "C", "-", "E", "I", "8", "0", "0", ".", "c", "t", "l">>,
      <<"/", "r", "/", "A", "l", "e", "x", "a", "-", "v", "2", "-", "l", "o", "g", "C", ".", "c", "t", "l">>,
      <<"/", "r", "/", "C", "S", "C", ".", "c", "c", ".", "c", "t", "l">>,
      <<"/", "r", "/", "a", "l", "e", "x", "a", "-", "v", "3", ".", "c", "t", "l">> }
FilterRecords ==
    { CTLTransform(path, S_csc, genus, <<>>) :
        path \in FilterPaths, genus \in { S_arri } }
    \cup { CTLTransform(<<"/", "r", "/", "C", "S", "C", ".", "c", "c", ".", "c", "t", "l">>, S_csc, VALUE_DEFAULT_UNDEFINED, <<>>) }
Filterers ==
    { "_exclusion_filterer_ARRIIDT", "genus_is_arri", "CSC_in_path",
      "nothing" }

\* A taxonomy holding the records of a list, each under its own name.
RECURSIVE TaxonomyOf(_, _)
TaxonomyOf(taxonomy, transforms) ==
    IF transforms = <<>> THEN taxonomy
    ELSE TaxonomyOf(
             AssignEntry(taxonomy, Head(transforms).family,
                         Head(transforms).genus,
                         SplitextRoot(Basename(Head(transforms).path)),
                         [ kind |-> "CTLTransform",
                           ctl_transform |-> Head(transforms) ]),
             Tail(transforms))

FilterInputs ==
    UNION { { [ kind |-> "list", list |-> q ],
              [ kind |-> "Mapping", taxonomy |-> TaxonomyOf(<<>>, q) ] } :
            q \in SeqsOf(FilterRecords, 0, MaxRecords) }

InitFilter ==
    /\ IdlePatch /\ IdleParse /\ IdlePairs /\ IdleClassify /\ IdleAmf
    /\ IdleLoad /\ IdleDiscover /\ IdleQuery
    /\ records \in FilterInputs
    /\ filterers \in
           { [ given |-> FALSE ] }
           \cup { [ given |-> TRUE, list |-> q ] :
                    q \in SeqsOf(Filterers, 0, MaxFilterers) }
    /\ filtered_ctl_transforms = [ status |-> "new" ]

FilterCtlTransforms ==
    /\ filtered_ctl_transforms.status = "new"
    /\ filtered_ctl_transforms' =
           [ status |-> "done",
             list |-> filter_ctl_transforms(records, filterers) ]
    /\ UNCHANGED <<records, filterers, varsPatch, varsParse, varsPairs,
                   varsClassify, varsAmf, varsLoad, varsDiscover,
                   varsQuery>>

NextFilter == FilterCtlTransforms

SpecFilter == InitFilter /\ [][NextFilter]_vars

\* The records a call filters and the predicates it applies.
Filtered == filtered_ctl_transforms.status = "done"
FilterItems ==
    IF records.kind = "Mapping"
    THEN unclassify_ctl_transforms(records.taxonomy) ELSE records.list
FilterPredicates ==
    IF filterers.given THEN filterers.list
    ELSE TRANSFORM_FILTERERS_DEFAULT_CTL
PassesAll(predicates, x) ==
    \A i \in 1..Len(predicates) : CallFilterer(predicates[i], x)
KeptBy(predicates) ==
    SelectSeq(FilterItems, LAMBDA x : PassesAll(predicates, x))

\* C14: filter_ctl_transforms keeps a record if and only if every predicate
\* of the list returns true for it, in input order; so the result of
\* filtering with p1+p2 is a subset of the result of filtering with p1.
C14_FilterIsConjunction ==
    Filtered =>
        /\ filtered_ctl_transforms.list = KeptBy(FilterPredicates)
        /\ \A k \in 0..Len(FilterPredicates) :
               Range(filtered_ctl_transforms.list) \subseteq
                   Range(filter_ctl_transforms(
                             records,
                             [ given |-> TRUE,
                               list |-> SubSeq(FilterPredicates, 1, k) ]))

\* C14's case: two predicates have been applied to three records; the first
\* alone keeps two of them, the two together keep one.
C14_Witness ==
    /\ Filtered
    /\ filterers.given
    /\ Len(filterers.list) = 2
    /\ Len(FilterItems) = 3
    /\ Len(KeptBy(<<filterers.list[1]>>)) = 2
    /\ Len(filtered_ctl_transforms.list) = 1

\* The vendor rule: 'Alexa' is in the path and 'Alexa-v3-logC' is not.
VendorExcluded(x) ==
    Contains(x.path, S_Alexa) /\ ~Contains(x.path, S_Alexa_v3_logC)

UpperLetters ==
    <<"A", "B", "C", "D", "E", "F", "G", "H", "I", "J", "K", "L", "M", "N",
      "O", "P", "Q", "R", "S", "T", "U", "V", "W", "X", "Y", "Z">>
LowerLetters ==
    <<"a", "b", "c", "d", "e", "f", "g", "h", "i", "j", "k", "l", "m", "n",
      "o", "p", "q", "r", "s", "t", "u", "v", "w", "x", "y", "z">>

\* s.lower()
Lower(s) ==
    [ i \in 1..Len(s) |->
        IF \E k \in 1..Len(UpperLetters) : UpperLetters[k] = s[i]
        THEN LowerLetters[CHOOSE k \in 1..Len(UpperLetters) :
                              UpperLetters[k] = s[i]]
        ELSE s[i] ]

\* Mutation: the extension is compared as it is written.
IsCtlFilenameCaseSensitive(filename) == EndsWith(filename, EXTENSION_CTL)

\* filename.lower().endswith(EXTENSION_CTL)
IsCtlFilename(filename) == EndsWith(Lower(filename), EXTENSION_CTL)

\* os.path.normpath(os.path.expandvars(root_directory)), for a path without
\* variables, '.' or '..' segments or doubled separators: trailing
\* separators go.
RECURSIVE Normpath(_)
Normpath(path) ==
    IF Len(path) > 1 /\ path[Len(path)] = "/"
    THEN Normpath(SubSeq(path, 1, Len(path) - 1)) ELSE path

\* os.walk(root_directory), top-down, errors ignored: the directories of
\* the tree at or under the root, a directory before the ones under it;
\* nothing when the root is not a directory of the tree.
RECURSIVE Walk(_, _)
Walk(tree, root) ==
    IF tree = <<>> THEN <<>>
    ELSE (IF Head(tree).directory = root
             \/ StartsWith(Head(tree).directory, root \o SEP)
          THEN <<Head(tree)>> ELSE <<>>) \o Walk(Tail(tree), root)

\* The loop over the file names of one directory.
RECURSIVE CollectFiles(_, _, _)
CollectFiles(found, directory, filenames) ==
    IF filenames = <<>> THEN found
    ELSE CollectFiles(
             IF IsCtlFilename(Head(filenames))
             THEN Extend(found, directory,
                         <<PathJoin(directory, Head(filenames))>>)
             ELSE found,
             directory, Tail(filenames))

\* The loop over os.walk.
RECURSIVE CollectDirectories(_, _)
CollectDirectories(found, walked) ==
    IF walked = <<>> THEN found
    ELSE CollectDirectories(
             CollectFiles(found, Head(walked).directory,
                          Head(walked).filenames),
             Tail(walked))

\* discover_aces_ctl_transforms(root_directory), on the tree on disk
discover_aces_ctl_transforms(tree, root) ==
    CollectDirectories(<<>>, Walk(tree, Normpath(root)))

\* Bound: a directory holds at most this many files.
MaxFiles == 2

S_r == <<"/", "r">>
S_r_a == <<"/", "r", "/", "a">>
DiscoverFilenames ==
    { <<"x", ".", "c", "t", "l">>, <<"y", ".", "C", "T", "L">>,
      <<"z", ".", "t", "x", "t">>, <<"c", "t", "l">> }
FilenameLists ==
    { q \in SeqsOf(DiscoverFilenames, 0, MaxFiles) :
        \A i, j \in 1..Len(q) : i # j => q[i] # q[j] }
Trees ==
    { << [ directory |-> S_r, filenames |-> q1 ],
         [ directory |-> S_r_a, filenames |-> q2 ] >> :
        q1 \in FilenameLists, q2 \in FilenameLists }
DiscoverRoots == { S_r, S_r \o SEP, S_r_a, <<"/", "m">> }

InitDiscover ==
    /\ IdlePatch /\ IdleParse /\ IdlePairs /\ IdleClassify /\ IdleAmf
    /\ IdleLoad /\ IdleFilter /\ IdleQuery
    /\ file_system \in Trees
    /\ discover_root \in DiscoverRoots
    /\ discovered = [ status |-> "new" ]

Discover ==
    /\ discovered.status = "new"
    /\ discovered' =
           [ status |-> "done",
             ctl_transforms |->
                 discover_aces_ctl_transforms(file_system, discover_root) ]
    /\ UNCHANGED <<file_system, discover_root, varsPatch, varsParse,
                   varsPairs, varsClassify, varsAmf, varsLoad, varsFilter,
                   varsQuery>>

NextDiscover == Discover

SpecDiscover == InitDiscover /\ [][NextDiscover]_vars

\* The directories of the tree at or under the root, and the paths of the
\* files of a directory whose name ends in '.ctl', whatever the case.
DiscoverCalled == discovered.status # "new"
RootExists ==
    \E i \in 1..Len(file_system) :
        file_system[i].directory = Normpath(discover_root)
UnderRoot ==
    { i \in 1..Len(file_system) :
        \/ file_system[i].directory = Normpath(discover_root)
        \/ StartsWith(file_system[i].directory,
                      Normpath(discover_root) \o SEP) }
EndsInCtl(filename) ==
    /\ Len(filename) >= 4
    /\ filename[Len(filename) - 3] = "."
    /\ filename[Len(filename) - 2] \in { "c", "C" }
    /\ filename[Len(filename) - 1] \in { "t", "T" }
    /\ filename[Len(filename)] \in { "l", "L" }
MatchingPaths(i) ==
    LET matching == SelectSeq(file_system[i].filenames, EndsInCtl)
    IN [ k \in 1..Len(matching) |->
           file_system[i].directory \o SEP \o matching[k] ]

\* C16: the mapping discovery returns has as keys exactly the directories
\* of the tree that directly hold at least one file whose name ends in
\* '.ctl', compared without case, and as the value of a directory exactly
\* the list of the paths of those files.
C16_DiscoverExact ==
    (DiscoverCalled /\ RootExists) =>
        /\ discovered.status = "done"
        /\ Keys(discovered.ctl_transforms) =
               { file_system[i].directory :
                   i \in { j \in UnderRoot : MatchingPaths(j) # <<>> } }
        /\ \A i \in UnderRoot :
               MatchingPaths(i) # <<>> =>
                   Lookup(discovered.ctl_transforms,
                          file_system[i].directory) = MatchingPaths(i)
        /\ \A i, j \in 1..Len(discovered.ctl_transforms) :
               discovered.ctl_transforms[i][1] =
                   discovered.ctl_transforms[j][1] => i = j

\* C16's case: under the root, one directory holds a '.ctl' and a '.CTL'
\* file and is a key with both, the other holds no matching file and is
\* not a key.
C16_Witness ==
    /\ DiscoverCalled
    /\ discover_root = S_r
    /\ Len(file_system[1].filenames) = 2
    /\ file_system[2].filenames = << <<"x", ".", "c", "t", "l">>,
                                     <<"y", ".", "C", "T", "L">> >>
    /\ Keys(discovered.ctl_transforms) = { S_r_a }
    /\ Len(Lookup(discovered.ctl_transforms, S_r_a)) = 2

\* C17: discovery on a root directory that does not exist ends in an error
\* and returns no mapping.
C17_MissingRootIsFatal ==
    (DiscoverCalled /\ ~RootExists) => discovered.status = "raised"

\* A file of the discovery that pairing keeps: no later file of its
\* directory's list normalises to its basename and direction.
KeptByPairing(i, k) ==
    \A m \in (k + 1)..Len(unclassified_ctl_transforms[i][2]) :
        PairKey(unclassified_ctl_transforms[i][2][m])
            # PairKey(unclassified_ctl_transforms[i][2][k])
ClassifyCalled == classified_ctl_transforms.status # "new"

\* C18: a classification run is all-or-nothing.  The records constructed
\* are those of the files pairing keeps; the run raises and returns no
\* taxonomy exactly when the construction of one of them fails, wherever the
\* file comes in the discovery, and a taxonomy that is returned holds no
\* file whose record cannot be constructed: the failing file is not skipped.
C18_AllOrNothing ==
    ClassifyCalled =>
        /\ (\E i \in Directories :
                \E k \in 1..Len(unclassified_ctl_transforms[i][2]) :
                    /\ unclassified_ctl_transforms[i][2][k] \in unreadable
                    /\ KeptByPairing(i, k))
               <=> classified_ctl_transforms = Raised("CTLTransform")
        /\ classified_ctl_transforms.status \in { "raised", "done" }
        /\ Classified =>
               \A s \in TaxonomySlots : s.path \notin unreadable

\* C18's case: the first directory has been classified, a file of the
\* second cannot be read, and the run has raised.
C18_Witness ==
    /\ ClassifyCalled
    /\ Len(unclassified_ctl_transforms) >= 2
    /\ unreadable # {}
    /\ unreadable \subseteq DirectoryPaths(2)
    /\ classified_ctl_transforms = Raised("CTLTransform")

\* The segments of a directory's path relative to the common ancestor, for
\* a directory below it.
RelativeSegments(directory) ==
    SubSeq(Split(directory, SEP), Len(Split(RootDirectory, SEP)) + 1,
           Len(Split(directory, SEP)))
BelowRoot(directory) == StartsWith(directory, RootDirectory \o SEP)

\* C19: for every discovered directory (below the common ancestor), the
\* family of its records is the first segment of its relative path, put
\* through the family table when it is a key of the table, and the genus is
\* the '/'-joined remainder of the segments as they are named on disk, or
\* 'undefined' when there is no remainder.
C19_FamilyGenusOfDirectory ==
    Classified =>
        \A s \in TaxonomySlots :
            BelowRoot(Dirname(s.path)) =>
                LET segments == RelativeSegments(Dirname(s.path))
                IN /\ s.family = FamilyGet(Head(segments))
                   /\ s.genus = IF Tail(segments) = <<>>
                                THEN VALUE_DEFAULT_UNDEFINED
                                ELSE Join(Tail(segments), SEP)

\* C20: in every graph generate_amf_components returns, for any corpus,
\* empty ids included, every value is a non-empty list, sorted lexically
\* and without duplicates; an id whose relation set is empty is not a key.
C20_ValuesSortedNonEmpty ==
    amf_components.status = "done" =>
        \A i \in 1..Len(amf_components.graph) :
            LET transform_ids == amf_components.graph[i][2]
            IN /\ transform_ids # <<>>
               /\ \A k \in 1..(Len(transform_ids) - 1) :
                      LexLess(transform_ids[k], transform_ids[k + 1])

(***************************************************************************)
(* filter_amf_components                                                   *)
(***************************************************************************)

S_D60 == <<"-", "D", "6", "0", "_">>

\* sorted(list): the list in lexical order, duplicates kept
RECURSIVE InsertSorted(_, _)
InsertSorted(sorted, x) ==
    IF sorted = <<>> THEN <<x>>
    ELSE IF LexLess(x, Head(sorted)) THEN <<x>> \o sorted
    ELSE <<Head(sorted)>> \o InsertSorted(Tail(sorted), x)

RECURSIVE SortedList(_)
SortedList(list) ==
    IF list = <<>> THEN <<>>
    ELSE InsertSorted(SortedList(Tail(list)), Head(list))

\* filterer(x) on a {"transform_id": id} dict, for the two predicates of
\* the examples: lambda x: "-D60_" not in x["transform_id"] and
\* lambda x: "-D60_" in x["transform_id"].
CallAmfFilterer(filterer, x) ==
    CASE filterer = "no_D60" -> ~Contains(x.transform_id, S_D60)
      [] filterer = "has_D60" -> Contains(x.transform_id, S_D60)

\* filter_any(array, filterers): the elements some filterer accepts
filter_any(array, filterer_list) ==
    SelectSeq(array,
              LAMBDA x : \E i \in 1..Len(filterer_list) :
                             CallAmfFilterer(filterer_list[i], x))

\* filter_all(array, filterers): the elements every filterer accepts
filter_all(array, filterer_list) ==
    SelectSeq(array,
              LAMBDA x : \A i \in 1..Len(filterer_list) :
                             CallAmfFilterer(filterer_list[i], x))

\* The truth value of an optional list: None and [] are false.
Truthy(value) == value.given /\ value.list # <<>>

\* Mutation: the result is returned in the order of the graph's list.
filter_amf_components_unsorted(graph, id, any_filterers, all_filterers) ==
    LET related == IF HasKey(graph, id) THEN Lookup(graph, id) ELSE <<>>
    IN IF Truthy(any_filterers) \/ Truthy(all_filterers)
       THEN LET dicts == [ i \in 1..Len(related) |->
                             [ transform_id |-> related[i] ] ]
                after_any == IF Truthy(any_filterers)
                             THEN filter_any(dicts, any_filterers.list)
                             ELSE dicts
                after_all == IF Truthy(all_filterers)
                             THEN filter_all(after_any, all_filterers.list)
                             ELSE after_any
            IN [ i \in 1..Len(after_all) |-> after_all[i].transform_id ]
       ELSE related

\* filter_amf_components(amf_components, aces_transform_id,
\*                       filter_any_filterers, filter_all_filterers)
filter_amf_components(graph, id, any_filterers, all_filterers) ==
    LET related == IF HasKey(graph, id) THEN Lookup(graph, id) ELSE <<>>
    IN IF Truthy(any_filterers) \/ Truthy(all_filterers)
       THEN LET dicts == [ i \in 1..Len(related) |->
                             [ transform_id |-> related[i] ] ]
                after_any == IF Truthy(any_filterers)
                             THEN filter_any(dicts, any_filterers.list)
                             ELSE dicts
                after_all == IF Truthy(all_filterers)
                             THEN filter_all(after_any, all_filterers.list)
                             ELSE after_any
            IN SortedList([ i \in 1..Len(after_all) |->
                              after_all[i].transform_id ])
       ELSE SortedList(related)

\* Bounds: the related ids of the graph's key and the predicates of a list.
MaxRelated == 4
MaxAmfFilterers == 2

QueryIds ==
    { <<"A">>, <<"B">>, <<"A">> \o S_D60, <<"B">> \o S_D60 }
RelatedLists ==
    { q \in SeqsOf(QueryIds, 0, MaxRelated) :
        \A i, j \in 1..Len(q) : i # j => q[i] # q[j] }
AmfFilterers == { "no_D60", "has_D60" }
OptionalFilterers ==
    { [ given |-> FALSE ] }
    \cup { [ given |-> TRUE, list |-> q ] :
             q \in SeqsOf(AmfFilterers, 0, MaxAmfFilterers) }

InitQuery ==
    /\ IdlePatch /\ IdleParse /\ IdlePairs /\ IdleClassify /\ IdleAmf
    /\ IdleLoad /\ IdleFilter /\ IdleDiscover
    /\ amf_query \in
           { [ status |-> "new",
               amf_components |-> << <<<<"C">>, related>> >>,
               aces_transform_id |-> id,
               filter_any_filterers |-> any_filterers,
               filter_all_filterers |-> all_filterers ] :
               related \in RelatedLists, id \in { <<"C">>, <<"D">> },
               any_filterers \in OptionalFilterers,
               all_filterers \in OptionalFilterers }
    /\ filtered_amf_components = [ status |-> "new" ]

FilterAmfComponents ==
    /\ filtered_amf_components.status = "new"
    /\ filtered_amf_components' =
           [ status |-> "done",
             list |-> filter_amf_components(
                          amf_query.amf_components,
                          amf_query.aces_transform_id,
                          amf_query.filter_any_filterers,
                          amf_query.filter_all_filterers) ]
    /\ UNCHANGED <<amf_query, varsPatch, varsParse, varsPairs, varsClassify,
                   varsAmf, varsLoad, varsFilter, varsDiscover>>

NextQuery == FilterAmfComponents

SpecQuery == InitQuery /\ [][NextQuery]_vars

\* The ids related to the queried id, and the ids a call must return.
Queried == filtered_amf_components.status = "done"
QueryRelated ==
    IF HasKey(amf_query.amf_components, amf_query.aces_transform_id)
    THEN Range(Lookup(amf_query.amf_components, amf_query.aces_transform_id))
    ELSE {}
Supplied(value) == value.given /\ value.list # <<>>
AcceptedByQuery(x) ==
    /\ Supplied(amf_query.filter_any_filterers) =>
           \E f \in Range(amf_query.filter_any_filterers.list) :
               CallAmfFilterer(f, [ transform_id |-> x ])
    /\ Supplied(amf_query.filter_all_filterers) =>
           \A f \in Range(amf_query.filter_all_filterers.list) :
               CallAmfFilterer(f, [ transform_id |-> x ])

\* C21: filter_amf_components returns the lexically sorted list of exactly
\* the ids related to the queried id that some OR-predicate accepts, when
\* OR-predicates are supplied, and every AND-predicate accepts, when
\* AND-predicates are supplied; an unknown id gives the empty list; a key
\* with four related ids, two of them with '-D60_', filtered with the
\* predicate that rejects '-D60_', gives the other two in order.
C21_QueryResult ==
    Queried =>
        /\ Range(filtered_amf_components.list) =
               { x \in QueryRelated : AcceptedByQuery(x) }
        /\ Len(filtered_amf_components.list) =
               Cardinality({ x \in QueryRelated : AcceptedByQuery(x) })
        /\ \A k \in 1..(Len(filtered_amf_components.list) - 1) :
               LexLess(filtered_amf_components.list[k],
                       filtered_amf_components.list[k + 1])
        /\ amf_query.aces_transform_id = <<"D">>
               => filtered_amf_components.list = <<>>
        /\ (/\ amf_query.aces_transform_id = <<"C">>
            /\ QueryRelated = QueryIds
            /\ \/ /\ amf_query.filter_any_filterers
                          = [ given |-> TRUE, list |-> <<"no_D60">> ]
                   /\ ~Supplied(amf_query.filter_all_filterers)
               \/ /\ ~Supplied(amf_query.filter_any_filterers)
                   /\ amf_query.filter_all_filterers
                          = [ given |-> TRUE, list |-> <<"no_D60">> ])
               => filtered_amf_components.list = << <<"A">>, <<"B">> >>

\* C21's case: the key's list is written out of order and holds the four
\* ids; the predicate rejecting '-D60_' has left 'A' and 'B', in order.
C21_Witness ==
    /\ Queried
    /\ amf_query.amf_components =
           << << <<"C">>,
                 << <<"B">> \o S_D60, <<"B">>, <<"A">>, <<"A">> \o S_D60 >> >> >>
    /\ amf_query.aces_transform_id = <<"C">>
    /\ amf_query.filter_any_filterers
           = [ given |-> TRUE, list |-> <<"no_D60">> ]
    /\ amf_query.filter_all_filterers = [ given |-> FALSE ]
    /\ filtered_amf_components.list = << <<"A">>, <<"B">> >>

\* The entries of the corpus, the ids they declare as transform or inverse,
\* and the relation set the corpus gives an id k.
CorpusTransforms == Range(AllTransforms(json_data))
DeclaredIds ==
    UNION { { t.transformId } \cup Range(t.inverseTransformId) :
            t \in CorpusTransforms }
DeclaresInverse(t, id) ==
    t.inverseTransformId # <<>> /\ t.inverseTransformId[1] = id
SpecifiedRelated(k) ==
    ({ k }
     \cup { t.inverseTransformId[1] :
              t \in { u \in CorpusTransforms :
                        u.transformId = k /\ u.inverseTransformId # <<>> } }
     \cup { t.transformId :
              t \in { u \in CorpusTransforms : DeclaresInverse(u, k) } }
     \cup (IF include_previous_transform_ids
           THEN UNION { Range(t.previousEquivalentTransformIds) :
                          t \in { u \in CorpusTransforms :
                                    \/ u.transformId = k
                                    \/ DeclaresInverse(u, k) } }
           ELSE {}))
    \ { <<>> }

\* C22: for every corpus and every id k the corpus declares as a transform
\* or as an inverse, graph[k] is the set of the non-empty ids among k, the
\* ids declared as inverse of k, the ids declaring k as their inverse and,
\* only with include_previous_transform_ids, the previous-equivalent ids of
\* the entries whose transformId or inverseTransformId is k; the graph has
\* no other key, and without the flag an id that is only a previous-
\* equivalent id is in no set.
C22_ExactRelationSets ==
    amf_components.status = "done" =>
        /\ Keys(amf_components.graph) = DeclaredIds
        /\ \A k \in DeclaredIds :
              Range(Lookup(amf_components.graph, k)) = SpecifiedRelated(k)
        /\ ~include_previous_transform_ids =>
              \A k \in DeclaredIds :
                  \A p \in CorpusIds \ DeclaredIds : p \notin Related(k)

\* C22's cases: a corpus where B is declared the inverse of A, formerly C.
\* With the flag, A and B each list A, B and C; without it, A and B only.
C22_Witness ==
    /\ amf_components.status = "done"
    /\ include_previous_transform_ids
    /\ \E t \in CorpusTransforms :
          /\ t.transformId = <<"A">>
          /\ t.inverseTransformId = << <<"B">> >>
          /\ t.previousEquivalentTransformIds = << <<"C">> >>
    /\ Related(<<"A">>) = { <<"A">>, <<"B">>, <<"C">> }
    /\ Related(<<"B">>) = { <<"A">>, <<"B">>, <<"C">> }

\* The lines of the file as written, and those before the first line that
\* is not blank and, trimmed, is neither a tag line nor a comment line.
RawLines == Split(ctl_file.text, S_NL)
EndsHeader(line) == Strip(line) # <<>> /\ ~IsHeaderLine(Strip(line))
RECURSIVE BeforeEndOfHeader(_)
BeforeEndOfHeader(lines) ==
    IF lines = <<>> \/ EndsHeader(Head(lines)) THEN <<>>
    ELSE <<Head(lines)>> \o BeforeEndOfHeader(Tail(lines))
RECURSIVE WithoutBlankLines(_)
WithoutBlankLines(lines) ==
    IF lines = <<>> THEN <<>>
    ELSE (IF Strip(Head(lines)) = <<>> THEN <<>> ELSE <<Head(lines)>>)
         \o WithoutBlankLines(Tail(lines))
FileOf(lines) == [ readable |-> TRUE, text |-> Join(lines, S_NL) ]

\* What loading a file gives, its text apart.
Outcome(result) ==
    IF result.status = "ok"
    THEN [ aces_transform_id |-> result.aces_transform_id,
           user_name |-> result.user_name,
           description |-> result.description ]
    ELSE result

\* C23: the scan stops at the first non-blank line that, trimmed, is
\* neither an identifier tag line, a user-name tag line nor a line starting
\* with '//': loading the file gives what loading the file cut before that
\* line gives, so with no identifier tag before that line the record loads
\* with the 'undefined' identifier, with no user-name tag before it the name
\* is the 'undefined' default, and with no comment before it the
\* description is the one the record starts with; and blank lines never end
\* the header: loading gives what the file without its blank lines gives.
C23_ScanStopsAtFirstOtherLine ==
    Loaded =>
        LET lines == RawLines
            before == BeforeEndOfHeader(lines)
            trimmed == [ i \in 1..Len(before) |-> Strip(before[i]) ]
            outcome == Outcome(loaded)
        IN /\ outcome = Outcome(LoadCTLTransform(FileOf(before)))
           /\ outcome = Outcome(LoadCTLTransform(FileOf(WithoutBlankLines(lines))))
           /\ (\A i \in 1..Len(trimmed) : ~IsIdentifierTagLine(trimmed[i]))
                 => loaded.status = "ok" /\ IdentifierIsUndefined
           /\ (/\ loaded.status = "ok"
               /\ \A i \in 1..Len(trimmed) : ~IsUserNameTagLine(trimmed[i]))
                 => loaded.user_name = VALUE_DEFAULT_UNDEFINED
           /\ (/\ loaded.status = "ok"
               /\ \A i \in 1..Len(trimmed) :
                      \/ IsIdentifierTagLine(trimmed[i])
                      \/ IsUserNameTagLine(trimmed[i])
                      \/ trimmed[i] = <<>>)
                 => loaded.description = VALUE_DEFAULT_UNDEFINED

\* C23's case: a blank line, a line of code and then an identifier tag with
\* an identifier of an unknown type: the record has loaded, its identifier
\* undefined.
C23_Witness ==
    /\ Loaded
    /\ Len(RawLines) = 3
    /\ RawLines[1] = <<>>
    /\ EndsHeader(RawLines[2])
    /\ IsIdentifierTagLine(RawLines[3])
    /\ C11_GrammarViolation(
           TagSearch(RawLines[3], S_open_ACEStransformID,
                     S_close_ACEStransformID)[1])
    /\ loaded.status = "ok"
    /\ IdentifierIsUndefined

\* The slots of the returned pairs, each with its key and its path, and the
\* slot the code assigns a path to.
PairSlots ==
    UNION { { [ basename |-> ctl_transform_pairs.pairs[i][1],
                slot |-> ctl_transform_pairs.pairs[i][2][j][1],
                path |-> ctl_transform_pairs.pairs[i][2][j][2] ] :
              j \in 1..Len(ctl_transform_pairs.pairs[i][2]) } :
            i \in 1..Len(ctl_transform_pairs.pairs) }
SlotOf(key, path) ==
    [ basename |-> key.basename,
      slot |-> IF key.is_forward THEN "forward_transform"
               ELSE "inverse_transform",
      path |-> path ]

\* C24: find_ctl_transform_pairs returns for every list, conflicting or
\* not: of the paths of the list that come to the same basename and the
\* same direction, the slot holds the one that comes last in the list and
\* the others are in no slot; every path that is the last of its basename
\* and direction is in exactly one slot, its own, and every slot holds such
\* a path.
C24_LastPathWins ==
    /\ ctl_transform_pairs.status # "raised"
    /\ ctl_transform_pairs.status = "done" =>
          LET n == Len(ctl_transforms)
              keys == [ i \in 1..n |-> PairKey(ctl_transforms[i]) ]
              slots == PairSlots
              last == { ctl_transforms[i] :
                          i \in { k \in 1..n :
                                    \A j \in (k + 1)..n : keys[j] # keys[k] } }
          IN /\ \A i \in 1..n :
                    IF ctl_transforms[i] \in last
                    THEN { s \in slots : s.path = ctl_transforms[i] }
                             = { SlotOf(keys[i], ctl_transforms[i]) }
                    ELSE \A s \in slots : s.path # ctl_transforms[i]
             /\ \A s \in slots : s.path \in last

\* C24's case: InvCSC.Foo.ctl and then CSC.Foo_to_ACES.ctl, both inverse
\* transforms of the key 'CSC.Foo': the one entry holds the second path and
\* the first is gone.
C24_Witness ==
    /\ ctl_transform_pairs.status = "done"
    /\ ctl_transforms = << CtlPath(InvShape(S_CSC, S_Foo)),
                           CtlPath(ToACESShape(S_CSC, S_Foo)) >>
    /\ PairSlots = { [ basename |-> ForwardShape(S_CSC, S_Foo),
                       slot |-> "inverse_transform",
                       path |-> CtlPath(ToACESShape(S_CSC, S_Foo)) ] }

\* The entries and the records of the returned taxonomy, and the content
\* of the list object a record holds as its siblings.
TaxonomyEntries ==
    UNION { UNION { { e[2] : e \in Range(g[2]) } : g \in Range(f[2]) } :
            f \in Range(classified_ctl_transforms.taxonomy) }
TaxonomyRecords ==
    { e.ctl_transform : e \in { x \in TaxonomyEntries : x.kind = "CTLTransform" } }
    \cup { e.forward_transform :
             e \in { x \in TaxonomyEntries : x.kind = "CTLTransformPair" } }
    \cup { e.inverse_transform :
             e \in { x \in TaxonomyEntries : x.kind = "CTLTransformPair" } }
SiblingsOf(ctl_transform) ==
    classified_ctl_transforms.lists[ctl_transform.siblings]

\* C25: after any classification run that returns, for every pair of the
\* taxonomy the siblings of the forward record are exactly the inverse
\* record and the siblings of the inverse record exactly the forward
\* record (records told by their paths), the siblings of every singleton
\* record are empty, and no two records hold the same list object.
C25_SiblingsMutualSetOnce ==
    Classified =>
        /\ \A e \in TaxonomyEntries :
              IF e.kind = "CTLTransformPair"
              THEN /\ SiblingsOf(e.forward_transform)
                          = << e.inverse_transform.path >>
                   /\ SiblingsOf(e.inverse_transform)
                          = << e.forward_transform.path >>
                   /\ e.forward_transform.path # e.inverse_transform.path
              ELSE SiblingsOf(e.ctl_transform) = <<>>
        /\ \A r1, r2 \in TaxonomyRecords :
              r1.path # r2.path => r1.siblings # r2.siblings

\* C25's case: a run has returned a taxonomy with a pair and a singleton
\* record.
C25_Witness ==
    /\ Classified
    /\ \E e \in TaxonomyEntries :
          /\ e.kind = "CTLTransformPair"
          /\ SiblingsOf(e.forward_transform) = << e.inverse_transform.path >>
    /\ \E e \in TaxonomyEntries :
          /\ e.kind = "CTLTransform"
          /\ SiblingsOf(e.ctl_transform) = <<>>

\* Both paths were found in one and the same discovered directory.
FromOneDirectory(p, q) ==
    \E i \in Directories : p \in DirectoryPaths(i) /\ q \in DirectoryPaths(i)

\* C26: the keys of a returned taxonomy agree with the records: the record
\* at taxonomy[f][g][b], or each member of the pair there, has family f and
\* genus g, and the two members of a pair were found in the same discovered
\* directory.
C26_KeysAgreeWithRecords ==
    Classified =>
        \A f \in Range(classified_ctl_transforms.taxonomy) :
            \A g \in Range(f[2]) :
                \A e \in Range(g[2]) :
                    IF e[2].kind = "CTLTransformPair"
                    THEN /\ e[2].forward_transform.family = f[1]
                         /\ e[2].forward_transform.genus = g[1]
                         /\ e[2].inverse_transform.family = f[1]
                         /\ e[2].inverse_transform.genus = g[1]
                         /\ FromOneDirectory(e[2].forward_transform.path,
                                             e[2].inverse_transform.path)
                         /\ Dirname(e[2].forward_transform.path)
                                = Dirname(e[2].inverse_transform.path)
                    ELSE /\ e[2].ctl_transform.family = f[1]
                         /\ e[2].ctl_transform.genus = g[1]

\* C26's case: files of two directories were classified, one directory
\* giving a pair and another a record under another family or genus.
C26_Witness ==
    /\ Classified
    /\ Len(unclassified_ctl_transforms) >= 2
    /\ \E e1, e2 \in TaxonomyEntries :
          /\ e1.kind = "CTLTransformPair"
          /\ e2.kind = "CTLTransform"
          /\ <<e2.ctl_transform.family, e2.ctl_transform.genus>>
                 # <<e1.forward_transform.family, e1.forward_transform.genus>>

=============================================================================
